---- MODULE Spec2Model ----
(***************************************************************************)
(* A model of the GLSL program linker (link_shaders and the phases it      *)
(* drives) of src/mesalib/src/amd/vulkan/radv_shader_info.c.               *)
(*                                                                         *)
(* The module holds several specifications over one variable list:         *)
(*   Spec        the driver link_shaders as a phase-by-phase state machine *)
(*   SpecAlloc   assign_attribute_or_color_locations on bounded stages     *)
(*   SpecBlocks  interstage_cross_validate_uniform_blocks                  *)
(*   SpecGlobals cross_validate_globals on bounded declaration lists       *)
(***************************************************************************)
EXTENDS Integers, Sequences, FiniteSets, TLC

(***************************************************************************)
(* Bounds of the model.                                                    *)
(***************************************************************************)
\* number of shader objects attached to the program
MaxUnits == 2
\* number of link_shaders invocations on the same program object
MaxLinks == 2
\* number of generic inputs (outputs) declared by the vertex (fragment) stage
MaxVars == 2
\* largest device limit (MaxAttribs, MaxDrawBuffers, MaxDualSourceDrawBuffers)
MaxLimit == 2
\* number of buffer blocks one linked stage declares
MaxBlocks == 2
\* number of shaders in the list cross_validate_globals walks
MaxDecls == 3
\* number of global-scope statements of one unit
MaxStmts == 1
\* number of instructions of a linked fragment shader
MaxInstrs == 2
\* number of linked stages check_resources walks
MaxResourceStages == 2
\* number of characters of a program resource name
MaxNameLen == 4
\* length of a sized array of a global declaration
MaxArrayLen == 2

(***************************************************************************)
(* Program constants.                                                      *)
(***************************************************************************)
MESA_SHADER_VERTEX == 0
MESA_SHADER_TESS_CTRL == 1
MESA_SHADER_TESS_EVAL == 2
MESA_SHADER_GEOMETRY == 3
MESA_SHADER_FRAGMENT == 4
MESA_SHADER_COMPUTE == 5
MESA_SHADER_STAGES == 6

Stages == 0 .. (MESA_SHADER_STAGES - 1)

\* language versions a unit may carry: one below and one above every
\* threshold link_shaders compares against (130, 140, 300)
Versions == {100, 300}

APIs == {"API_OPENGL_COMPAT", "API_OPENGL_CORE", "API_OPENGLES2"}

\* one attached shader object, as far as link_shaders reads it
Units == [Stage : Stages, IsES : BOOLEAN, Version : Versions]

RECURSIVE SeqsUpTo(_, _)
SeqsUpTo(S, n) ==
  IF n = 0 THEN {<<>>}
  ELSE LET shorter == SeqsUpTo(S, n - 1)
       IN shorter \cup {Append(q, x) : q \in {r \in shorter : Len(r) = n - 1}, x \in S}

VARIABLES
  pc,              \* position of link_shaders
  Shaders,         \* prog->Shaders[0 .. NumShaders-1]
  API,             \* ctx->API
  SeparateShader,  \* prog->SeparateShader
  LinkStatus,      \* prog->LinkStatus
  InfoLog,         \* messages appended to prog->InfoLog since link_shaders was entered
  LinkedShaders,   \* prog->_LinkedShaders[stage]: "NULL", "old" (of an earlier link), "new"
  symbols,         \* stages whose linked shader still owns a symbol table
  stage,           \* loop index of the per-stage loops
  sh,              \* the shader link_intrastage_shaders returned: "NULL" or "new"
  prev,            \* producer stage of the inter-stage loop
  num_tfeedback_decls,
  mem_ctx,         \* the temporary linker arena is allocated
  shader_list,     \* the per-stage unit lists are allocated
  cleanups,        \* number of times the code after `done:' ran in this invocation
  links,           \* number of invocations so far
  late,            \* phases entered while LinkStatus was already false
  gaveUp,          \* phases that returned NULL/false in this invocation
  allocSt,         \* SpecAlloc: one run of assign_attribute_or_color_locations
  blockSt,         \* SpecBlocks: one run of interstage_cross_validate_uniform_blocks
  globSt,          \* SpecGlobals: one run of cross_validate_globals
  callSt           \* the arguments and the result of the one call the other
                   \* single-function specifications make

driverVars == <<pc, Shaders, API, SeparateShader, LinkStatus, InfoLog,
                LinkedShaders, symbols, stage, sh, prev, num_tfeedback_decls,
                mem_ctx, shader_list, cleanups, links, late, gaveUp>>

pureVars == <<allocSt, blockSt, globSt, callSt>>

\* everything of the driver but its position
driverData == <<Shaders, API, SeparateShader, LinkStatus, InfoLog,
                LinkedShaders, symbols, stage, sh, prev, num_tfeedback_decls,
                mem_ctx, shader_list, cleanups, links, late, gaveUp>>

vars == <<driverVars, pureVars>>

(***************************************************************************)
(* linker_error / linker_warning                                           *)
(***************************************************************************)
linker_error(msg) ==
  /\ InfoLog' = Append(InfoLog, <<"error: ", msg>>)
  /\ LinkStatus' = FALSE

linker_warning(msg) ==
  /\ InfoLog' = Append(InfoLog, <<"warning: ", msg>>)
  /\ UNCHANGED LinkStatus

NoMessage == UNCHANGED <<InfoLog, LinkStatus>>

HardFailures(log) == {i \in 1 .. Len(log) : log[i][1] = "error: "}

\* bookkeeping of the phases entered after a hard failure
Enter(phase) == late' = IF LinkStatus THEN late ELSE late \cup {phase}

GiveUp(phase) == gaveUp' = gaveUp \cup {phase}

(***************************************************************************)
(* Locals of link_shaders that are functions of the program state.         *)
(***************************************************************************)
num_shaders(s) == Cardinality({i \in 1 .. Len(Shaders) : Shaders[i].Stage = s})

SetMin(S) == CHOOSE x \in S : \A y \in S : x <= y
SetMax(S) == CHOOSE x \in S : \A y \in S : x >= y

min_version == SetMin({Shaders[i].Version : i \in 1 .. Len(Shaders)})
max_version == SetMax({Shaders[i].Version : i \in 1 .. Len(Shaders)})

\* prog->Version and prog->IsES once the early checks have passed
Version == max_version
IsES == Shaders[1].IsES

Linked == {s \in Stages : LinkedShaders[s] # "NULL"}

\* "Determine first and last stage."
first == IF Linked = {} THEN MESA_SHADER_STAGES ELSE SetMin(Linked)
last == IF Linked = {} THEN 0 ELSE SetMax(Linked)

(***************************************************************************)
(* link_shaders, entry to the per-stage loop.                              *)
(***************************************************************************)
AllNull == [s \in Stages |-> "NULL"]

DriverInit ==
  /\ pc = "idle"
  /\ Shaders = <<>>
  /\ API \in APIs
  /\ SeparateShader \in BOOLEAN
  /\ LinkStatus = FALSE
  /\ InfoLog = <<>>
  /\ LinkedShaders = AllNull
  /\ symbols = {}
  /\ stage = 0
  /\ sh = "NULL"
  /\ prev = 0
  /\ num_tfeedback_decls = 0
  /\ mem_ctx = FALSE
  /\ shader_list = FALSE
  /\ cleanups = 0
  /\ links = 0
  /\ late = {}
  /\ gaveUp = {}

Goto(p) == pc' = p

\* between two invocations: the frame of the finished invocation is gone,
\* the program object keeps what link_shaders left in it, and the application
\* may attach other shaders before it links again
relink ==
  /\ pc = "returned"
  /\ links < MaxLinks
  /\ pc' = "idle"
  /\ Shaders' = <<>>
  /\ InfoLog' = <<>>
  /\ stage' = 0
  /\ sh' = "NULL"
  /\ prev' = 0
  /\ num_tfeedback_decls' = 0
  /\ cleanups' = 0
  /\ late' = {}
  /\ gaveUp' = {}
  /\ LinkedShaders' = [s \in Stages |->
                         IF LinkedShaders[s] = "NULL" THEN "NULL" ELSE "old"]
  /\ UNCHANGED <<API, SeparateShader, LinkStatus, symbols, mem_ctx, shader_list,
                 links, pureVars>>

\* lines 5259-5303: LinkStatus is set, the "no shaders attached" check
\* returns without reaching `done:', the arena and the unit lists are made
link_shaders_entry ==
  /\ pc = "idle"
  /\ links < MaxLinks
  /\ \E units \in SeqsUpTo(Units, MaxUnits) :
       /\ Shaders' = units
       /\ links' = links + 1
       /\ IF Len(units) = 0
            THEN /\ IF API # "API_OPENGL_COMPAT"
                      THEN /\ InfoLog' = Append(InfoLog, <<"error: ", "no shaders attached to the program">>)
                           /\ LinkStatus' = FALSE
                      ELSE /\ InfoLog' = InfoLog
                           /\ LinkStatus' = TRUE
                 /\ Goto("returned")
                 /\ UNCHANGED <<mem_ctx, shader_list>>
            ELSE /\ InfoLog' = InfoLog
                 /\ LinkStatus' = TRUE
                 /\ mem_ctx' = TRUE
                 /\ shader_list' = TRUE
                 /\ Goto("classify")
  /\ UNCHANGED <<API, SeparateShader, LinkedShaders, symbols, stage, sh, prev,
                 num_tfeedback_decls, cleanups, late, gaveUp, pureVars>>

Frame == UNCHANGED <<Shaders, API, SeparateShader, mem_ctx, shader_list,
                     cleanups, links, pureVars>>

\* lines 5305-5324: group the units by stage; ES and non-ES units do not mix
classify_shaders ==
  /\ pc = "classify"
  /\ IF \E i \in 1 .. Len(Shaders) : Shaders[i].IsES # Shaders[1].IsES
       THEN /\ linker_error("all shaders must use same shading language version")
            /\ Goto("done")
       ELSE /\ NoMessage
            /\ Goto("check_es_version")
  /\ Frame
  /\ UNCHANGED <<LinkedShaders, symbols, stage, sh, prev, num_tfeedback_decls, late, gaveUp>>

\* lines 5326-5336
check_es_version ==
  /\ pc = "check_es_version"
  /\ IF Shaders[1].IsES /\ min_version # max_version
       THEN /\ linker_error("all shaders must use same shading language version")
            /\ Goto("done")
       ELSE /\ NoMessage
            /\ Goto("check_required_stages")
  /\ Frame
  /\ UNCHANGED <<LinkedShaders, symbols, stage, sh, prev, num_tfeedback_decls, late, gaveUp>>

\* lines 5338-5382
check_required_stages ==
  /\ pc = "check_required_stages"
  /\ IF ~SeparateShader /\ num_shaders(MESA_SHADER_GEOMETRY) > 0
                        /\ num_shaders(MESA_SHADER_VERTEX) = 0
       THEN /\ linker_error("Geometry shader must be linked with vertex shader")
            /\ Goto("done")
     ELSE IF ~SeparateShader /\ num_shaders(MESA_SHADER_TESS_EVAL) > 0
                             /\ num_shaders(MESA_SHADER_VERTEX) = 0
       THEN /\ linker_error("Tessellation evaluation shader must be linked with vertex shader")
            /\ Goto("done")
     ELSE IF ~SeparateShader /\ num_shaders(MESA_SHADER_TESS_CTRL) > 0
                             /\ num_shaders(MESA_SHADER_VERTEX) = 0
       THEN /\ linker_error("Tessellation control shader must be linked with vertex shader")
            /\ Goto("done")
     ELSE IF ~SeparateShader /\ num_shaders(MESA_SHADER_TESS_CTRL) > 0
                             /\ num_shaders(MESA_SHADER_TESS_EVAL) = 0
       THEN /\ linker_error("Tessellation control shader must be linked with tessellation evaluation shader")
            /\ Goto("done")
     ELSE /\ NoMessage
          /\ Goto("check_compute")
  /\ Frame
  /\ UNCHANGED <<LinkedShaders, symbols, stage, sh, prev, num_tfeedback_decls, late, gaveUp>>

\* lines 5384-5389: the error is recorded and control falls through
check_compute ==
  /\ pc = "check_compute"
  /\ IF num_shaders(MESA_SHADER_COMPUTE) > 0
        /\ num_shaders(MESA_SHADER_COMPUTE) # Len(Shaders)
       THEN linker_error("Compute shaders may not be linked with any other type of shader")
       ELSE NoMessage
  /\ Goto("discard_linked")
  /\ Frame
  /\ UNCHANGED <<LinkedShaders, symbols, stage, sh, prev, num_tfeedback_decls, late, gaveUp>>

\* lines 5391-5396: the stages of the previous link are deleted
discard_linked ==
  /\ pc = "discard_linked"
  /\ LinkedShaders' = AllNull
  /\ symbols' = {}
  /\ stage' = 0
  /\ Goto("intrastage")
  /\ NoMessage
  /\ Frame
  /\ UNCHANGED <<sh, prev, num_tfeedback_decls, late, gaveUp>>

\* lines 5400-5401, 5437: the loop over the stages
intrastage_loop ==
  /\ pc = "intrastage"
  /\ IF stage = MESA_SHADER_STAGES
       THEN /\ Goto("cross_validate_uniforms")
            /\ UNCHANGED stage
       ELSE /\ num_shaders(stage) = 0
            /\ stage' = stage + 1
            /\ UNCHANGED pc
  /\ NoMessage
  /\ Frame
  /\ UNCHANGED <<LinkedShaders, symbols, sh, prev, num_tfeedback_decls, late, gaveUp>>

\* what link_intrastage_shaders (lines 2949-3167) can do:
\*   "linked"  a linked shader is returned and nothing is logged
\*   "error"   a linker_error is recorded (the shader, if any, is deleted by
\*             the caller at line 5407)
\*   "quiet"   NULL is returned at line 2967/2973 because LinkStatus was
\*             already false on entry, nothing new is logged
\*   "oom"     lines 3087-3104: calloc fails, _mesa_error_no_memory, NULL is
\*             returned and neither the log nor LinkStatus is touched
IntrastageOutcomes ==
  IF LinkStatus THEN {"linked", "error", "oom"} ELSE {"error", "quiet"}

\* lines 5402-5410
link_intrastage_shaders ==
  /\ pc = "intrastage"
  /\ stage < MESA_SHADER_STAGES
  /\ num_shaders(stage) > 0
  /\ Enter("link_intrastage_shaders")
  /\ \E out \in IntrastageOutcomes :
       CASE out = "linked" ->
              /\ NoMessage
              /\ sh' = "new"
              /\ Goto("validate_executable")
              /\ UNCHANGED gaveUp
         [] out = "error" ->
              /\ linker_error("link_intrastage_shaders")
              /\ sh' = "NULL"
              /\ GiveUp("link_intrastage_shaders")
              /\ Goto("done")
         [] out = "quiet" ->
              /\ NoMessage
              /\ sh' = "NULL"
              /\ GiveUp("link_intrastage_shaders")
              /\ Goto("done")
         [] out = "oom" ->
              /\ NoMessage
              /\ sh' = "NULL"
              /\ GiveUp("link_intrastage_shaders")
              /\ Goto("validate_executable")
  /\ Frame
  /\ UNCHANGED <<LinkedShaders, symbols, stage, prev, num_tfeedback_decls>>

\* what the validate_*_shader_executable functions (lines 1546-1663) find in
\* the linked stage: every one returns at once for a NULL shader
\*   validate_vertex_shader_executable: gl_Position never written is an error
\*     below GLSL 1.40, a warning below ES 3.00, unchecked otherwise
\*   analyze_clip_cull_usage (vertex, tess eval, geometry) may fail
\*   validate_fragment_shader_executable: gl_FragColor and gl_FragData written
ExecutableFindings ==
  IF sh = "NULL" THEN {"ok"}
  ELSE CASE stage = MESA_SHADER_VERTEX ->
              {"ok", "clip_cull"}
                \cup (IF Version < (IF IsES THEN 300 ELSE 140)
                        THEN {"no_position"} ELSE {})
         [] stage \in {MESA_SHADER_TESS_EVAL, MESA_SHADER_GEOMETRY} ->
              {"ok", "clip_cull"}
         [] stage = MESA_SHADER_FRAGMENT -> {"ok", "both_colors"}
         [] OTHER -> {"ok"}

\* lines 5412-5436
validate_executable ==
  /\ pc = "validate_executable"
  /\ Enter("validate_executable")
  /\ \E found \in ExecutableFindings :
       /\ CASE found = "ok" -> NoMessage
            [] found = "clip_cull" ->
                 linker_error("analyze_clip_cull_usage")
            [] found = "no_position" ->
                 IF IsES
                   THEN linker_warning("vertex shader does not write to `gl_Position'")
                   ELSE linker_error("vertex shader does not write to `gl_Position'")
            [] found = "both_colors" ->
                 linker_error("fragment shader writes to both `gl_FragColor' and `gl_FragData'")
       /\ IF ~LinkStatus'
            THEN /\ sh' = "NULL"
                 /\ Goto("done")
                 /\ UNCHANGED <<LinkedShaders, symbols, stage>>
            ELSE /\ LinkedShaders' = [LinkedShaders EXCEPT ![stage] = sh]
                 /\ symbols' = IF sh = "NULL" THEN symbols ELSE symbols \cup {stage}
                 /\ sh' = "NULL"
                 /\ stage' = stage + 1
                 /\ Goto("intrastage")
  /\ Frame
  /\ UNCHANGED <<prev, num_tfeedback_decls, gaveUp>>

\* a phase of link_shaders that only records errors: `fails' says whether it
\* calls linker_error, `next' is where control goes, `checked' whether the
\* driver tests LinkStatus right after the call
Phase(name, fails, checked, next) ==
  /\ Enter(name)
  /\ IF fails THEN linker_error(name) ELSE NoMessage
  /\ IF checked /\ ~LinkStatus' THEN Goto("done") ELSE Goto(next)
  /\ Frame
  /\ UNCHANGED <<LinkedShaders, symbols, stage, sh, prev, num_tfeedback_decls, gaveUp>>

\* a phase that returns false after logging an error, and the driver jumps
\* to `done:' on false
BoolPhase(name, fails, next) ==
  /\ Enter(name)
  /\ IF fails
       THEN /\ linker_error(name)
            /\ GiveUp(name)
            /\ Goto("done")
       ELSE /\ NoMessage
            /\ UNCHANGED gaveUp
            /\ Goto(next)
  /\ Frame
  /\ UNCHANGED <<LinkedShaders, symbols, stage, sh, prev, num_tfeedback_decls>>

\* a phase that cannot fail
Step(next) ==
  /\ NoMessage
  /\ Goto(next)
  /\ Frame
  /\ UNCHANGED <<LinkedShaders, symbols, stage, sh, prev, num_tfeedback_decls, late, gaveUp>>

\* may a phase that walks the linked stages find anything to complain about
SomeLinked == Linked # {}
MayFail(cond) == IF cond THEN BOOLEAN ELSE {FALSE}

(***************************************************************************)
(* link_shaders, the inter-stage phases (lines 5453-5606).                 *)
(***************************************************************************)
\* lines 5457-5459
cross_validate_uniforms ==
  /\ pc = "cross_validate_uniforms"
  /\ \E fails \in MayFail(Cardinality(Linked) >= 2) :
       Phase("cross_validate_uniforms", fails, TRUE, "check_explicit_uniform_locations")

\* line 5475: no test of LinkStatus follows
check_explicit_uniform_locations ==
  /\ pc = "check_explicit_uniform_locations"
  /\ \E fails \in MayFail(SomeLinked) :
       Phase("check_explicit_uniform_locations", fails, FALSE, "link_assign_subroutine_types")

\* lines 5476-5479
link_assign_subroutine_types ==
  /\ pc = "link_assign_subroutine_types"
  /\ \E fails \in MayFail(SomeLinked) :
       Phase("link_assign_subroutine_types", fails, TRUE, "resize_tes_inputs")

\* lines 5481-5487: the resize visitor reports mismatching array sizes to the
\* program log; the loop that follows starts at first + 1
resize_tes_inputs ==
  /\ pc = "resize_tes_inputs"
  /\ Enter("resize_tes_inputs")
  /\ \E fails \in MayFail(LinkedShaders[MESA_SHADER_TESS_EVAL] # "NULL") :
       IF fails THEN linker_error("resize_tes_inputs") ELSE NoMessage
  /\ prev' = first
  /\ stage' = first + 1
  /\ Goto("interstage")
  /\ Frame
  /\ UNCHANGED <<LinkedShaders, symbols, sh, num_tfeedback_decls, gaveUp>>

\* lines 5487-5489, 5503: the loop over the consumer stages
interstage_loop ==
  /\ pc = "interstage"
  /\ IF stage > MESA_SHADER_FRAGMENT
       THEN /\ Goto("validate_interstage_uniform_blocks")
            /\ UNCHANGED stage
       ELSE /\ LinkedShaders[stage] = "NULL"
            /\ stage' = stage + 1
            /\ UNCHANGED pc
  /\ NoMessage
  /\ Frame
  /\ UNCHANGED <<LinkedShaders, symbols, sh, prev, num_tfeedback_decls, late, gaveUp>>

\* lines 5491-5494
validate_interstage_inout_blocks ==
  /\ pc = "interstage"
  /\ stage <= MESA_SHADER_FRAGMENT
  /\ LinkedShaders[stage] # "NULL"
  /\ \E fails \in BOOLEAN :
       Phase("validate_interstage_inout_blocks", fails, TRUE, "cross_validate_outputs_to_inputs")

\* lines 5496-5502
cross_validate_outputs_to_inputs ==
  /\ pc = "cross_validate_outputs_to_inputs"
  /\ Enter("cross_validate_outputs_to_inputs")
  /\ \E fails \in BOOLEAN :
       IF fails
         THEN /\ linker_error("cross_validate_outputs_to_inputs")
              /\ Goto("done")
              /\ UNCHANGED <<prev, stage>>
         ELSE /\ NoMessage
              /\ prev' = stage
              /\ stage' = stage + 1
              /\ Goto("interstage")
  /\ Frame
  /\ UNCHANGED <<LinkedShaders, symbols, sh, num_tfeedback_decls, gaveUp>>

\* lines 5505-5509
validate_interstage_uniform_blocks ==
  /\ pc = "validate_interstage_uniform_blocks"
  /\ \E fails \in MayFail(Cardinality(Linked) >= 2) :
       Phase("validate_interstage_uniform_blocks", fails, TRUE, "lower_interface_blocks")

\* lines 5511-5530: lower_named_interface_blocks, lower_discard_flow,
\* disable_varying_optimizations_for_sso
lower_interface_blocks ==
  /\ pc = "lower_interface_blocks"
  /\ Step("process_ubos")

\* lines 5532-5534
process_ubos ==
  /\ pc = "process_ubos"
  /\ \E fails \in MayFail(Cardinality(Linked) >= 2) :
       BoolPhase("interstage_cross_validate_uniform_blocks(ubo)", fails, "process_ssbos")

\* lines 5536-5538
process_ssbos ==
  /\ pc = "process_ssbos"
  /\ \E fails \in MayFail(Cardinality(Linked) >= 2) :
       BoolPhase("interstage_cross_validate_uniform_blocks(ssbo)", fails, "optimize")

\* lines 5544-5566: detect_recursion_linked and the lowering and optimization
\* of every linked stage
optimize ==
  /\ pc = "optimize"
  /\ \E fails \in MayFail(SomeLinked) :
       Phase("detect_recursion_linked", fails, TRUE, "validate_sampler_array_indexing")

\* lines 5572-5576 with validate_sampler_array_indexing (lines 5094-5121):
\* dynamic indexing is an error (return false) or a warning (return true)
validate_sampler_array_indexing ==
  /\ pc = "validate_sampler_array_indexing"
  /\ IF (~IsES /\ Version < 130) \/ (IsES /\ Version < 300)
       THEN /\ Enter("validate_sampler_array_indexing")
            /\ \E found \in (IF SomeLinked THEN {"none", "warning", "error"} ELSE {"none"}) :
                 CASE found = "none" ->
                        /\ NoMessage
                        /\ UNCHANGED gaveUp
                        /\ Goto("validate_geometry_shader_emissions")
                   [] found = "warning" ->
                        /\ linker_warning("sampler arrays indexed with non-constant expressions")
                        /\ UNCHANGED gaveUp
                        /\ Goto("validate_geometry_shader_emissions")
                   [] found = "error" ->
                        /\ linker_error("sampler arrays indexed with non-constant expressions")
                        /\ GiveUp("validate_sampler_array_indexing")
                        /\ Goto("done")
       ELSE /\ NoMessage
            /\ UNCHANGED <<late, gaveUp>>
            /\ Goto("validate_geometry_shader_emissions")
  /\ Frame
  /\ UNCHANGED <<LinkedShaders, symbols, stage, sh, prev, num_tfeedback_decls>>

\* lines 5578-5579 with validate_geometry_shader_emissions (lines 1667-1713):
\* no test of LinkStatus follows
validate_geometry_shader_emissions ==
  /\ pc = "validate_geometry_shader_emissions"
  /\ \E fails \in MayFail(LinkedShaders[MESA_SHADER_GEOMETRY] # "NULL") :
       Phase("validate_geometry_shader_emissions", fails, FALSE,
             "link_invalidate_variable_locations")

\* lines 5581-5596: link_invalidate_variable_locations and
\* match_explicit_outputs_to_inputs log nothing
link_invalidate_variable_locations ==
  /\ pc = "link_invalidate_variable_locations"
  /\ Enter("link_invalidate_variable_locations")
  /\ NoMessage
  /\ Goto("assign_attribute_locations")
  /\ Frame
  /\ UNCHANGED <<LinkedShaders, symbols, stage, sh, prev, num_tfeedback_decls, gaveUp>>

\* lines 5598-5601
assign_attribute_locations ==
  /\ pc = "assign_attribute_locations"
  /\ \E fails \in MayFail(LinkedShaders[MESA_SHADER_VERTEX] # "NULL") :
       BoolPhase("assign_attribute_or_color_locations(vertex)", fails,
                 "assign_color_locations")

\* lines 5603-5606
assign_color_locations ==
  /\ pc = "assign_color_locations"
  /\ \E fails \in MayFail(LinkedShaders[MESA_SHADER_FRAGMENT] # "NULL") :
       BoolPhase("assign_attribute_or_color_locations(fragment)", fails,
                 "transform_feedback")

(***************************************************************************)
(* link_shaders, varyings, resources and the common exit (lines 5608-5847) *)
(***************************************************************************)
\* lines 5616-5652: the number of transform feedback declarations comes from
\* the xfb layout qualifiers or from the API
transform_feedback ==
  /\ pc = "transform_feedback"
  /\ Enter("parse_tfeedback_decls")
  /\ \E n \in {0, 1}, fails \in BOOLEAN :
       /\ num_tfeedback_decls' = n
       /\ IF n = 0
            THEN /\ ~fails
                 /\ NoMessage
                 /\ UNCHANGED gaveUp
                 /\ Goto("assign_last_stage_outputs")
          ELSE IF first >= MESA_SHADER_FRAGMENT
            THEN /\ ~fails
                 /\ linker_error("Transform feedback varyings specified, but no vertex, tessellation, or geometry shader is present.")
                 /\ UNCHANGED gaveUp
                 /\ Goto("done")
          ELSE IF fails
            THEN /\ linker_error("parse_tfeedback_decls")
                 /\ GiveUp("parse_tfeedback_decls")
                 /\ Goto("done")
            ELSE /\ NoMessage
                 /\ UNCHANGED gaveUp
                 /\ Goto("assign_last_stage_outputs")
  /\ Frame
  /\ UNCHANGED <<LinkedShaders, symbols, stage, sh, prev>>

\* lines 5660-5669
assign_last_stage_outputs ==
  /\ pc = "assign_last_stage_outputs"
  /\ IF last < MESA_SHADER_FRAGMENT /\ (num_tfeedback_decls # 0 \/ SeparateShader)
       THEN \E fails \in BOOLEAN :
              BoolPhase("assign_varying_locations(last)", fails, "assign_varyings")
       ELSE Step("assign_varyings")

\* line 5674 reads prog->_LinkedShaders[first]; with no linked stage first is
\* MESA_SHADER_STAGES and the read is past the end of the array: the
\* invocation either goes on or the process ends there
OutOfBoundsRead == last <= MESA_SHADER_FRAGMENT /\ first = MESA_SHADER_STAGES

\* lines 5671-5747: remove_unused_shader_inputs_and_outputs, then
\* assign_varying_locations and the input/output limit checks, for the single
\* stage (separable programs only) or for every producer/consumer pair
assign_varyings ==
  /\ pc = "assign_varyings"
  /\ ~OutOfBoundsRead
  /\ IF last > MESA_SHADER_FRAGMENT
       THEN Step("store_tfeedback_info")
       ELSE \E fails \in MayFail(first # last \/ SeparateShader) :
              BoolPhase("assign_varying_locations", fails, "store_tfeedback_info")

\* the two outcomes of the read past the end of _LinkedShaders: with no linked
\* stage the loop at line 5710 has no iteration, so going on logs nothing
assign_varyings_out_of_bounds ==
  /\ pc = "assign_varyings"
  /\ OutOfBoundsRead
  /\ \E goesOn \in BOOLEAN :
       IF goesOn THEN Goto("store_tfeedback_info") ELSE Goto("crashed")
  /\ Enter("assign_varying_locations")
  /\ NoMessage
  /\ Frame
  /\ UNCHANGED <<LinkedShaders, symbols, stage, sh, prev, num_tfeedback_decls, gaveUp>>

\* lines 5749-5753: store_tfeedback_info, then update_array_sizes
store_tfeedback_info ==
  /\ pc = "store_tfeedback_info"
  /\ \E fails \in MayFail(num_tfeedback_decls # 0) :
       BoolPhase("store_tfeedback_info", fails, "link_assign_uniform_locations")

\* lines 5754-5756
link_assign_uniform_locations ==
  /\ pc = "link_assign_uniform_locations"
  /\ \E fails \in MayFail(SomeLinked) :
       Phase("link_assign_uniform_locations", fails, FALSE,
             "link_assign_atomic_counter_resources")

\* lines 5757-5758: store_fragdepth_layout follows and logs nothing
link_assign_atomic_counter_resources ==
  /\ pc = "link_assign_atomic_counter_resources"
  /\ \E fails \in MayFail(SomeLinked) :
       Phase("link_assign_atomic_counter_resources", fails, FALSE,
             "link_calculate_subroutine_compat")

\* line 5760
link_calculate_subroutine_compat ==
  /\ pc = "link_calculate_subroutine_compat"
  /\ \E fails \in MayFail(SomeLinked) :
       Phase("link_calculate_subroutine_compat", fails, FALSE, "check_resources")

\* lines 5761-5767: check_resources, check_subroutine_resources,
\* check_image_resources and link_check_atomic_counter_resources, then the
\* one test of LinkStatus for the phases since store_tfeedback_info
check_resources ==
  /\ pc = "check_resources"
  /\ \E fails \in MayFail(SomeLinked) :
       Phase("check_resources", fails, TRUE, "check_es_stages")

\* lines 5795-5802
check_es_stages ==
  /\ pc = "check_es_stages"
  /\ IF ~SeparateShader /\ API = "API_OPENGLES2"
        /\ num_shaders(MESA_SHADER_COMPUTE) = 0
       THEN IF LinkedShaders[MESA_SHADER_VERTEX] = "NULL"
              THEN linker_error("program lacks a vertex shader")
            ELSE IF LinkedShaders[MESA_SHADER_FRAGMENT] = "NULL"
              THEN linker_error("program lacks a fragment shader")
            ELSE NoMessage
       ELSE NoMessage
  /\ Goto("lower_stages")
  /\ Frame
  /\ UNCHANGED <<LinkedShaders, symbols, stage, sh, prev, num_tfeedback_decls, late, gaveUp>>

\* lines 5804-5821: lower_ubo_reference, lower_shared_reference,
\* lower_vector_derefs, do_vec_index_to_swizzle
lower_stages ==
  /\ pc = "lower_stages"
  /\ Enter("lower_stages")
  /\ NoMessage
  /\ Goto("done")
  /\ Frame
  /\ UNCHANGED <<LinkedShaders, symbols, stage, sh, prev, num_tfeedback_decls, gaveUp>>

\* lines 5823-5847: the per-stage unit lists are freed, every linked stage
\* loses its symbol table, the linker arena is freed
done ==
  /\ pc = "done"
  /\ shader_list' = FALSE
  /\ symbols' = symbols \ Linked
  /\ mem_ctx' = FALSE
  /\ cleanups' = cleanups + 1
  /\ Goto("returned")
  /\ NoMessage
  /\ UNCHANGED <<Shaders, API, SeparateShader, LinkedShaders, stage, sh, prev,
                 num_tfeedback_decls, links, late, gaveUp, pureVars>>

(***************************************************************************)
(* The driver specification.                                               *)
(***************************************************************************)
Init ==
  /\ DriverInit
  /\ allocSt = "unused"
  /\ blockSt = "unused"
  /\ globSt = "unused"
  /\ callSt = "unused"

Next ==
  \/ relink
  \/ link_shaders_entry
  \/ classify_shaders
  \/ check_es_version
  \/ check_required_stages
  \/ check_compute
  \/ discard_linked
  \/ intrastage_loop
  \/ link_intrastage_shaders
  \/ validate_executable
  \/ cross_validate_uniforms
  \/ check_explicit_uniform_locations
  \/ link_assign_subroutine_types
  \/ resize_tes_inputs
  \/ interstage_loop
  \/ validate_interstage_inout_blocks
  \/ cross_validate_outputs_to_inputs
  \/ validate_interstage_uniform_blocks
  \/ lower_interface_blocks
  \/ process_ubos
  \/ process_ssbos
  \/ optimize
  \/ validate_sampler_array_indexing
  \/ validate_geometry_shader_emissions
  \/ link_invalidate_variable_locations
  \/ assign_attribute_locations
  \/ assign_color_locations
  \/ transform_feedback
  \/ assign_last_stage_outputs
  \/ assign_varyings
  \/ assign_varyings_out_of_bounds
  \/ store_tfeedback_info
  \/ link_assign_uniform_locations
  \/ link_assign_atomic_counter_resources
  \/ link_calculate_subroutine_compat
  \/ check_resources
  \/ check_es_stages
  \/ lower_stages
  \/ done

Spec == Init /\ [][Next]_vars

(***************************************************************************)
(* Claims about the driver, checked under Spec.                            *)
(***************************************************************************)
Returned == pc = "returned"

\* the invocation went past the "no shaders attached" check
PastNoShadersCheck == Len(Shaders) > 0

\* C1: at return from link_shaders LinkStatus is failure exactly when a hard
\* failure ("error: ") message was appended during the invocation, and every
\* phase that gave up (returned NULL or false) appended one first.
C1_FailureIffHardError ==
  Returned =>
    /\ (~LinkStatus) <=> (HardFailures(InfoLog) # {})
    /\ (gaveUp # {}) => (HardFailures(InfoLog) # {})

\* C2: once a hard failure is recorded, no later phase of link_shaders is
\* entered before the final cleanup.
C2_NoPhaseAfterFailure == late = {}

\* C3: an invocation that got past the "no shaders attached" check ends having
\* run the final cleanup exactly once: unit lists and arena freed, no linked
\* stage keeps a symbol table.
C3_CleanupExactlyOnce ==
  (pc \in {"returned", "crashed"} /\ PastNoShadersCheck) =>
    /\ cleanups = 1
    /\ ~shader_list
    /\ ~mem_ctx
    /\ symbols = {}

\* C4: after a failed link the program holds no linked stage of an earlier
\* link attempt.
C4_NoStaleStageAfterFailure ==
  (Returned /\ ~LinkStatus) => \A s \in Stages : LinkedShaders[s] # "old"

(***************************************************************************)
(* find_available_slots and assign_attribute_or_color_locations            *)
(* (lines 3314-3774).  A 32-bit mask is the set of its set bits.           *)
(***************************************************************************)
VERT_ATTRIB_GENERIC0 == 17
FRAG_RESULT_DATA0 == 4

Bits == 0 .. 31

\* (use_mask << attr) with use_mask = (1 << slots) - 1
SlotMask(attr, slots) == {b \in Bits : attr <= b /\ b < attr + slots}

\* find_available_slots without the test against used_mask
find_available_slots_first(used_mask, needed_count) ==
  IF needed_count = 0 \/ 32 - needed_count < 0 THEN -1 ELSE 0

\* lines 3323-3343: first fit; -1 when nothing fits or nothing is needed
find_available_slots(used_mask, needed_count) ==
  LET max_bit_to_test == 32 - needed_count
      fits == {i \in 0 .. max_bit_to_test :
                 SlotMask(i, needed_count) \cap used_mask = {}}
  IN IF needed_count = 0 \/ max_bit_to_test < 0 \/ max_bit_to_test > 32
       THEN -1
     ELSE IF fits = {} THEN -1
     ELSE SetMin(fits)

\* the glsl types of the declared variables, as far as the allocator reads
\* them: count_attribute_slots, without_array()->base_type, vector_elements,
\* is_dual_slot
VertexTypes ==
  { [name |-> "vec4",  slots |-> 1, base_type |-> "float",  vector_elements |-> 4, dual |-> FALSE],
    [name |-> "mat2",  slots |-> 2, base_type |-> "float",  vector_elements |-> 2, dual |-> FALSE],
    [name |-> "dvec4", slots |-> 1, base_type |-> "double", vector_elements |-> 4, dual |-> TRUE] }

FragmentTypes ==
  { [name |-> "vec2",    slots |-> 1, base_type |-> "float", vector_elements |-> 2, dual |-> FALSE],
    [name |-> "ivec2",   slots |-> 1, base_type |-> "int",   vector_elements |-> 2, dual |-> FALSE],
    [name |-> "vec4[2]", slots |-> 2, base_type |-> "float", vector_elements |-> 4, dual |-> FALSE] }

\* one ir_variable of the target direction on entry to the allocator:
\*   explicit_location, location   layout(location = ...), absolute; -1 if none
\*   index, location_frac          layout(index = ...), layout(component = ...)
\*   binding                       prog->AttributeBindings / FragDataBindings, -1 if none
\*   index_binding                 prog->FragDataIndexBindings, -1 if none
ImplicitVar(t) ==
  [type |-> t, explicit_location |-> FALSE, location |-> -1, index |-> 0,
   location_frac |-> 0, binding |-> -1, index_binding |-> -1]

VertexVars ==
  UNION { {ImplicitVar(t)}
          \cup {[ImplicitVar(t) EXCEPT !.explicit_location = TRUE,
                                       !.location = VERT_ATTRIB_GENERIC0 + l]
                  : l \in 0 .. MaxLimit}
          \cup {[ImplicitVar(t) EXCEPT !.binding = VERT_ATTRIB_GENERIC0 + l]
                  : l \in 0 .. MaxLimit}
        : t \in VertexTypes }

\* the component qualifier is offered where the type leaves room for it, on
\* outputs of index 0
Fracs(t, i) == IF t.vector_elements = 2 /\ i = 0 THEN {0, 2} ELSE {0}

FragmentVars ==
  UNION { {ImplicitVar(t)}
          \cup UNION {{[ImplicitVar(t) EXCEPT !.explicit_location = TRUE,
                                               !.location = FRAG_RESULT_DATA0 + l,
                                               !.index = i, !.location_frac = f]
                          : l \in 0 .. MaxLimit, f \in Fracs(t, i)}
                       : i \in {0, 1}}
          \cup {[ImplicitVar(t) EXCEPT !.binding = FRAG_RESULT_DATA0,
                                       !.index_binding = i]
                  : i \in {-1, 1}}
        : t \in FragmentTypes }

\* the program, the device limits and the stage the allocator is called with
VertexInput(m, e, g, vs) ==
  [target_index |-> MESA_SHADER_VERTEX, MaxAttribs |-> m,
   MaxDrawBuffers |-> 1, MaxDualSourceDrawBuffers |-> 1,
   IsES |-> e[1], Version |-> e[2], gl_Vertex |-> g, vars |-> vs]

FragmentInput(d, u, e, vs) ==
  [target_index |-> MESA_SHADER_FRAGMENT, MaxAttribs |-> 1,
   MaxDrawBuffers |-> d, MaxDualSourceDrawBuffers |-> u,
   IsES |-> e, Version |-> 300, gl_Vertex |-> FALSE, vars |-> vs]

\* the (IsES, Version) pairs the overlap policy tells apart
Profiles == {<<FALSE, 100>>, <<TRUE, 100>>, <<TRUE, 300>>}

MAX2(a, b) == IF a > b THEN a ELSE b

\* lines 3368-3370
max_index(in) ==
  IF in.target_index = MESA_SHADER_VERTEX
    THEN in.MaxAttribs
    ELSE MAX2(in.MaxDrawBuffers, in.MaxDualSourceDrawBuffers)

\* lines 3401-3402
generic_base(in) ==
  IF in.target_index = MESA_SHADER_VERTEX
    THEN VERT_ATTRIB_GENERIC0 ELSE FRAG_RESULT_DATA0

\* no location marked
InitialUsedLocations_none(m) == {}

\* lines 3372-3376: "Mark invalid locations as being used."
InitialUsedLocations(m) == IF m >= 32 THEN Bits ELSE Bits \ (0 .. (m - 1))

\* lines 3440-3473: the location and index a variable carries once the API
\* bindings have been looked up
BoundLocation(in, v) ==
  IF v.explicit_location THEN v.location
  ELSE IF v.binding # -1 THEN v.binding
  ELSE v.location

BoundIndex(in, v) ==
  IF ~v.explicit_location /\ in.target_index = MESA_SHADER_FRAGMENT
     /\ v.binding # -1 /\ v.index_binding # -1
    THEN v.index_binding ELSE v.index

\* lines 3624-3629
component_mask(v) ==
  {c \in 0 .. 7 : v.location_frac <= c /\ c < v.location_frac + v.type.vector_elements}

\* the state of the allocator between two variables of the first loop
AllocStart(in) ==
  [used_locations |-> InitialUsedLocations(max_index(in)),
   double_storage_locations |-> {},
   assigned |-> <<>>,
   to_assign |-> <<>>,
   location |-> [i \in 1 .. Len(in.vars) |-> in.vars[i].location],
   index |-> [i \in 1 .. Len(in.vars) |-> in.vars[i].index],
   log |-> <<>>,
   failed |-> FALSE]

AllocError(st, msg, i) ==
  [st EXCEPT !.log = Append(st.log, <<"error: ", msg, i>>), !.failed = TRUE]

\* a warning that also makes the allocator give up
AllocWarning_failing(st, msg, i) ==
  [st EXCEPT !.log = Append(st.log, <<"warning: ", msg, i>>), !.failed = TRUE]

AllocWarning(st, msg, i) ==
  [st EXCEPT !.log = Append(st.log, <<"warning: ", msg, i>>)]

\* lines 3604-3639: the check of a fragment output of a non-ES program against
\* the outputs located before it; the result is the error message, or "none"
RECURSIVE AliasedOutputError(_, _, _, _, _)
AliasedOutputError(in, st, i, attr, k) ==
  IF k > Len(st.assigned) THEN "none"
  ELSE LET a == st.assigned[k]
           av == in.vars[a]
           v == in.vars[i]
           assig_attr == st.location[a] - generic_base(in)
       IN IF SlotMask(assig_attr, av.type.slots) \cap SlotMask(attr, v.type.slots) # {}
            THEN IF av.type.base_type # v.type.base_type
                   THEN "types do not match for aliased"
                 ELSE IF component_mask(av) \cap component_mask(v) # {}
                   THEN "overlapping component is assigned"
                 ELSE AliasedOutputError(in, st, i, attr, k + 1)
            ELSE AliasedOutputError(in, st, i, attr, k + 1)

\* lines 3571-3677: a located generic variable of index 0 reserves its slots
ReserveLocated(in, st, i, loc) ==
  LET v == in.vars[i]
      slots == v.type.slots
      attr == loc - generic_base(in)
      mask == SlotMask(attr, slots)
      overlap == mask \cap st.used_locations # {}
      aliased == IF overlap /\ in.target_index = MESA_SHADER_FRAGMENT /\ ~in.IsES
                   THEN AliasedOutputError(in, st, i, attr, 1) ELSE "none"
      reserved == [st EXCEPT
                     !.used_locations = @ \cup mask,
                     !.double_storage_locations = IF v.type.dual THEN @ \cup mask ELSE @]
  IN IF attr + slots > max_index(in)
       THEN AllocError(st, "insufficient contiguous locations available", i)
     ELSE IF ~overlap THEN reserved
     ELSE IF in.target_index = MESA_SHADER_FRAGMENT /\ ~in.IsES
       THEN IF aliased # "none" THEN AllocError(st, aliased, i) ELSE reserved
     ELSE IF in.target_index = MESA_SHADER_FRAGMENT \/ (in.IsES /\ in.Version >= 300)
       THEN AllocError(st, "overlapping location is assigned", i)
     ELSE AllocWarning(reserved, "overlapping location is assigned", i)

\* lines 3434-3695: the body of the first loop for variable i
VisitVariable(in, st, i) ==
  LET v == in.vars[i]
      loc == BoundLocation(in, v)
      idx == BoundIndex(in, v)
      bound == [st EXCEPT !.location[i] = loc, !.index[i] = idx]
  IN IF v.explicit_location
        /\ (loc >= max_index(in) + generic_base(in) \/ loc < 0)
       THEN AllocError(st, "invalid explicit location specified", i)
     ELSE IF in.target_index = MESA_SHADER_FRAGMENT /\ idx >= 1
             /\ loc - generic_base(in) >= in.MaxDualSourceDrawBuffers
       THEN AllocError(bound, "output location >= GL_MAX_DUAL_SOURCE_DRAW_BUFFERS", i)
     ELSE IF loc # -1
       THEN LET r == IF loc >= generic_base(in) /\ idx < 1
                       THEN ReserveLocated(in, bound, i, loc) ELSE bound
            IN IF r.failed THEN r
               ELSE [r EXCEPT !.assigned = Append(@, i)]
     ELSE IF Len(st.to_assign) >= max_index(in)
       THEN AllocError(bound, IF in.target_index = MESA_SHADER_VERTEX
                               THEN "too many vertex shader inputs"
                               ELSE "too many fragment shader outputs", i)
     ELSE [bound EXCEPT !.to_assign = Append(@, i)]

RECURSIVE FirstLoop(_, _, _)
FirstLoop(in, st, i) ==
  IF i > Len(in.vars) \/ st.failed THEN st
  ELSE FirstLoop(in, VisitVariable(in, st, i), i + 1)

\* lines 3697-3707 and 3761-3771
\* the count of lines 3698-3700 without the slots of dual-slot types
total_attribs_size_single(in, st) ==
  Cardinality(st.used_locations \cap (0 .. (max_index(in) - 1)))

total_attribs_size(in, st) ==
  Cardinality(st.used_locations \cap (0 .. (max_index(in) - 1)))
    + Cardinality(st.double_storage_locations)

CheckTotal(in, st) ==
  IF in.target_index = MESA_SHADER_VERTEX /\ total_attribs_size(in, st) > max_index(in)
    THEN AllocError(st, "attempt to use vertex attribute slots only available", 0)
    ELSE st

\* line 3716: qsort with temp_attr::compare orders by descending slot count
\* and leaves the order of variables with equal slot counts open
SortedOrders(in, to_assign) ==
  LET n == Len(to_assign)
      S == {to_assign[k] : k \in 1 .. n}
  IN {ord \in [1 .. n -> S] :
        /\ \A a, b \in 1 .. n : a # b => ord[a] # ord[b]
        /\ \A a, b \in 1 .. n :
             a < b => in.vars[ord[a]].type.slots >= in.vars[ord[b]].type.slots}

\* lines 3729-3754: first fit for the variables without a location
RECURSIVE SecondLoop(_, _, _, _)
SecondLoop(in, st, ord, k) ==
  IF k > Len(ord) \/ st.failed THEN st
  ELSE LET i == ord[k]
           v == in.vars[i]
           location == find_available_slots(st.used_locations, v.type.slots)
           mask == SlotMask(location, v.type.slots)
       IN IF location < 0
            THEN AllocError(st, "insufficient contiguous locations available", i)
            ELSE SecondLoop(in,
                   [st EXCEPT !.location[i] = generic_base(in) + location,
                              !.used_locations = @ \cup mask,
                              !.double_storage_locations =
                                 IF v.type.dual THEN @ \cup mask ELSE @],
                   ord, k + 1)

\* lines 3359-3774; `ord' is the order qsort left to_assign in
assign_attribute_or_color_locations_with(in, ord, st1) ==
  LET st2 == CheckTotal(in, st1)
      st3 == IF in.target_index = MESA_SHADER_VERTEX /\ in.gl_Vertex
               THEN [st2 EXCEPT !.used_locations = @ \cup {0}] ELSE st2
      st4 == SecondLoop(in, st3, ord, 1)
      st5 == IF st4.failed THEN st4 ELSE CheckTotal(in, st4)
      fin == IF st1.failed THEN st1
             ELSE IF st2.failed THEN st2
             ELSE IF Len(st1.to_assign) = 0 THEN st2
             ELSE st5
  IN [ok |-> ~fin.failed, location |-> fin.location, index |-> fin.index,
      log |-> fin.log]

AllocResults(in) ==
  LET st1 == FirstLoop(in, AllocStart(in), 1)
  IN {assign_attribute_or_color_locations_with(in, ord, st1)
        : ord \in SortedOrders(in, st1.to_assign)}

AllocInit ==
  /\ \E n \in 0 .. MaxVars :
       \/ \E vs \in [1 .. n -> VertexVars], m \in 1 .. MaxLimit,
             e \in Profiles, g \in BOOLEAN :
            allocSt = [in |-> VertexInput(m, e, g, vs), out |-> "none"]
       \/ \E vs \in [1 .. n -> FragmentVars], d \in 1 .. MaxLimit, e \in BOOLEAN :
            \E u \in 1 .. d :
            allocSt = [in |-> FragmentInput(d, u, e, vs), out |-> "none"]
  /\ pc = "alloc"
  /\ Shaders = <<>> /\ API = "API_OPENGL_CORE" /\ SeparateShader = FALSE
  /\ LinkStatus = TRUE /\ InfoLog = <<>> /\ LinkedShaders = AllNull
  /\ symbols = {} /\ stage = 0 /\ sh = "NULL" /\ prev = 0
  /\ num_tfeedback_decls = 0 /\ mem_ctx = TRUE /\ shader_list = TRUE
  /\ cleanups = 0 /\ links = 1 /\ late = {} /\ gaveUp = {}
  /\ blockSt = "unused" /\ globSt = "unused" /\ callSt = "unused"

\* one call of the allocator on the stage described by allocSt.in
assign_attribute_or_color_locations ==
  /\ pc = "alloc"
  /\ \E r \in AllocResults(allocSt.in) :
       allocSt' = [allocSt EXCEPT !.out = r]
  /\ pc' = "allocated"
  /\ UNCHANGED <<driverData, blockSt, globSt, callSt>>

AllocNext == assign_attribute_or_color_locations

SpecAlloc == AllocInit /\ [][AllocNext]_vars

(***************************************************************************)
(* Claims about the location allocator                                     *)
(***************************************************************************)
Allocated == pc = "allocated"

AllocIn == allocSt.in

AllocVars == 1 .. Len(allocSt.in.vars)

\* the slots [location, location + slots) variable i occupies in the result
OccupiedSlots(r, i) ==
  IF r.location[i] = -1 THEN {}
  ELSE SlotMask(r.location[i] - generic_base(AllocIn), AllocIn.vars[i].type.slots)

\* the location of variable i was given by the shader or through the API
UserLocated(i) ==
  AllocIn.vars[i].explicit_location \/ AllocIn.vars[i].binding # -1

\* the policy of lines 3593-3651 lets i and j share slots
AliasingExceptionApplies(i, j) ==
  \/ /\ AllocIn.target_index = MESA_SHADER_VERTEX
     /\ ~(AllocIn.IsES /\ AllocIn.Version >= 300)
  \/ /\ AllocIn.target_index = MESA_SHADER_FRAGMENT
     /\ ~AllocIn.IsES
     /\ AllocIn.vars[i].type.base_type = AllocIn.vars[j].type.base_type
     /\ component_mask(AllocIn.vars[i]) \cap component_mask(AllocIn.vars[j]) = {}

OverlapIsPermitted(r, i, j) ==
  OccupiedSlots(r, i) \cap OccupiedSlots(r, j) # {}
    => UserLocated(i) /\ UserLocated(j) /\ AliasingExceptionApplies(i, j)

C6_Deterministic ==
  Allocated => \A r \in AllocResults(AllocIn) : r = allocSt.out

\* no two user-given locations of the input share a slot
NoUserAliasing ==
  \A i, j \in AllocVars :
     (i # j /\ UserLocated(i) /\ UserLocated(j)) =>
        SlotMask(BoundLocation(AllocIn, AllocIn.vars[i]), AllocIn.vars[i].type.slots)
          \cap SlotMask(BoundLocation(AllocIn, AllocIn.vars[j]), AllocIn.vars[j].type.slots) = {}

TooManyInputs ==
  /\ AllocIn.target_index = MESA_SHADER_VERTEX
  /\ Len(AllocIn.vars) > AllocIn.MaxAttribs

\* the allocator failed and logged a hard failure with one of the texts
FailedWith(texts) ==
  /\ ~allocSt.out.ok
  /\ \E k \in 1 .. Len(allocSt.out.log) :
       allocSt.out.log[k][1] = "error: " /\ allocSt.out.log[k][2] \in texts

CapacityErrors ==
  {"insufficient contiguous locations available",
   "too many vertex shader inputs",
   "attempt to use vertex attribute slots only available"}

\* C9, as stated: more generic vertex inputs than MaxAttribs make the
\* allocator fail with a hard error (insufficient contiguous locations, too
\* many vertex shader inputs, or slot count exceeded), whatever locations
\* they carry.
C9_TooManyInputsFail ==
  (Allocated /\ TooManyInputs) => FailedWith(CapacityErrors)

\* C9: more generic vertex inputs than MaxAttribs make the allocator fail
\* with a hard error (insufficient contiguous locations, too many vertex
\* shader inputs, slot count exceeded, or invalid explicit location),
\* provided no two user-given locations share a slot.
C9_TooManyDistinctInputsFail ==
  (Allocated /\ TooManyInputs /\ NoUserAliasing)
    => FailedWith(CapacityErrors \cup {"invalid explicit location specified"})

\* a mix of user-located and implicit inputs that exceeds the limit
C9_Witness ==
  /\ Allocated /\ TooManyInputs /\ NoUserAliasing /\ FailedWith(CapacityErrors)
  /\ \E i, j \in AllocVars : UserLocated(i) /\ ~UserLocated(j)

(***************************************************************************)
(* interstage_cross_validate_uniform_blocks (lines 2018-2108).             *)
(* Indices into block lists count from 1; -1 is "no block".                *)
(***************************************************************************)
BlockNames == 1 .. MaxBlocks

\* what a definition of a block consists of (members, packing), up to equality
BlockLayouts == {"std140 { vec4 a; }", "std140 { mat4 a; }"}

\* a gl_uniform_block of a linked stage, as link_uniform_blocks leaves it
StageBlocks == [Name : BlockNames, layout : BlockLayouts, stageref : {{}}]

\* sh->UniformBlocks / sh->ShaderStorageBlocks of one stage with up to n
\* blocks: block names are unique within a stage
StageBlockLists(n) ==
  UNION {{l \in [1 .. m -> StageBlocks] :
            \A a, b \in 1 .. m : a # b => l[a].Name # l[b].Name}
         : m \in 0 .. n}

\* prog->_LinkedShaders[i]: NULL, or a stage with its block list
NullStage == [linked |-> FALSE, blocks |-> <<>>]

LinkedStages(n) == {[linked |-> TRUE, blocks |-> l] : l \in StageBlockLists(n)}

\* the vertex and the fragment stage declare up to MaxBlocks blocks, the
\* geometry stage between them at most one
BlocksOf(i) == IF i = MESA_SHADER_GEOMETRY THEN 1 ELSE MaxBlocks

\* link_cross_validate_uniform_block: the index of the block of the program
\* list that new_block joins, the list grown by a copy of new_block when its
\* name is new, and -1 when the definitions under one name differ
link_cross_validate_uniform_block(blks, new_block) ==
  LET same == {i \in 1 .. Len(blks) : blks[i].Name = new_block.Name}
  IN IF same # {}
       THEN LET i == SetMin(same)
            IN [index |-> IF blks[i].layout = new_block.layout THEN i ELSE -1,
                blks |-> blks]
       ELSE [index |-> Len(blks) + 1, blks |-> Append(blks, new_block)]

\* lines 2027-2038
max_num_buffer_blocks(shaders) ==
  LET RECURSIVE Sum(_)
      Sum(S) == IF S = {} THEN 0
                ELSE LET i == SetMin(S)
                     IN (IF ~shaders[i].linked THEN 0 ELSE Len(shaders[i].blocks))
                          + Sum(S \ {i})
  IN Sum(Stages)

MergeStart(shaders) ==
  [blks |-> <<>>,
   InterfaceBlockStageIndex |->
      [i \in Stages |-> [j \in 1 .. max_num_buffer_blocks(shaders) |-> -1]],
   log |-> <<>>,
   failed |-> FALSE]

\* lines 2060-2075 with the error check left out
MergeBlock_unchecked(shaders, st, i, j) ==
  LET r == link_cross_validate_uniform_block(st.blks, shaders[i].blocks[j])
  IN IF r.index = -1 THEN st
     ELSE [st EXCEPT !.blks = r.blks,
                     !.InterfaceBlockStageIndex[i][r.index] = j]

\* lines 2060-2075: block j of stage i joins the program list
MergeBlock(shaders, st, i, j) ==
  LET r == link_cross_validate_uniform_block(st.blks, shaders[i].blocks[j])
  IN IF r.index = -1
       THEN [st EXCEPT
               !.log = Append(@, <<"error: ", "buffer block has mismatching definitions",
                                   shaders[i].blocks[j].Name>>),
               !.failed = TRUE]
       ELSE [st EXCEPT !.blks = r.blks,
                       !.InterfaceBlockStageIndex[i][r.index] = j]

RECURSIVE MergeStage(_, _, _, _)
MergeStage(shaders, st, i, j) ==
  IF st.failed \/ j > Len(shaders[i].blocks) THEN st
  ELSE MergeStage(shaders, MergeBlock(shaders, st, i, j), i, j + 1)

\* lines 2040-2076, the stages taken in the order `order'
RECURSIVE MergeStages(_, _, _, _)
MergeStages(shaders, st, order, k) ==
  IF st.failed \/ k > Len(order) THEN st
  ELSE LET i == order[k]
       IN MergeStages(shaders,
                      IF ~shaders[i].linked THEN st
                      ELSE MergeStage(shaders, st, i, 1),
                      order, k + 1)

\* line 2088 with an assignment in place of |=
UpdateStageref_assign(stageref, i) == {i}

\* line 2088
UpdateStageref(stageref, i) == stageref \cup {i}

\* lines 2081-2096 for canonical block j: the stages that declare it
RECURSIVE StagerefOf(_, _, _, _)
StagerefOf(st, j, i, stageref) ==
  IF i >= MESA_SHADER_STAGES THEN stageref
  ELSE StagerefOf(st, j, i + 1,
                  IF st.InterfaceBlockStageIndex[i][j] # -1
                    THEN UpdateStageref(stageref, i) ELSE stageref)

\* line 2093: where each per-stage block pointer ends up
StagePointers(shaders, st) ==
  [i \in Stages |->
     IF ~shaders[i].linked THEN <<>>
     ELSE [l \in 1 .. Len(shaders[i].blocks) |->
             LET js == {j \in 1 .. Len(st.blks) :
                          st.InterfaceBlockStageIndex[i][j] = l}
             IN IF js = {} THEN <<"stage", i, l>>
                ELSE <<"program", SetMin(js)>>]]

\* lines 2018-2108, the stages merged in the order `order'; the code's order
\* is CodeOrder
MergeInOrder(shaders, validate_ssbo, order) ==
  LET st == MergeStages(shaders, MergeStart(shaders), order, 1)
      pool == IF validate_ssbo THEN "ShaderStorageBlocks" ELSE "UniformBlocks"
  IN IF st.failed
       THEN [ok |-> FALSE, pool |-> pool, num_blks |-> Len(st.blks),
             blks |-> <<>>,
             sh_blks |-> StagePointers(shaders, MergeStart(shaders)),
             log |-> st.log]
       ELSE [ok |-> TRUE, pool |-> pool, num_blks |-> Len(st.blks),
             blks |-> [j \in 1 .. Len(st.blks) |->
                         [st.blks[j] EXCEPT !.stageref = StagerefOf(st, j, 0, @)]],
             sh_blks |-> StagePointers(shaders, st),
             log |-> st.log]

\* line 2040: for (i = 0; i < MESA_SHADER_STAGES; i++)
CodeOrder == [k \in 1 .. MESA_SHADER_STAGES |-> k - 1]

BlocksInit ==
  /\ \E vs \in LinkedStages(BlocksOf(MESA_SHADER_VERTEX)) \cup {NullStage},
          gs \in LinkedStages(BlocksOf(MESA_SHADER_GEOMETRY)) \cup {NullStage},
          fs \in LinkedStages(BlocksOf(MESA_SHADER_FRAGMENT)) \cup {NullStage},
          v \in BOOLEAN :
       blockSt = [shaders |-> [i \in Stages |->
                                 IF i = MESA_SHADER_VERTEX THEN vs
                                 ELSE IF i = MESA_SHADER_GEOMETRY THEN gs
                                 ELSE IF i = MESA_SHADER_FRAGMENT THEN fs
                                 ELSE NullStage],
                  validate_ssbo |-> v, out |-> "none"]
  /\ pc = "blocks"
  /\ Shaders = <<>> /\ API = "API_OPENGL_CORE" /\ SeparateShader = FALSE
  /\ LinkStatus = TRUE /\ InfoLog = <<>> /\ LinkedShaders = AllNull
  /\ symbols = {} /\ stage = 0 /\ sh = "NULL" /\ prev = 0
  /\ num_tfeedback_decls = 0 /\ mem_ctx = TRUE /\ shader_list = TRUE
  /\ cleanups = 0 /\ links = 1 /\ late = {} /\ gaveUp = {}
  /\ allocSt = "unused" /\ globSt = "unused" /\ callSt = "unused"

\* one call of the merger on the linked stages of blockSt
interstage_cross_validate_uniform_blocks ==
  /\ pc = "blocks"
  /\ blockSt' = [blockSt EXCEPT
                   !.out = MergeInOrder(blockSt.shaders, blockSt.validate_ssbo, CodeOrder)]
  /\ pc' = "merged"
  /\ UNCHANGED <<driverData, allocSt, globSt, callSt>>

BlocksNext == interstage_cross_validate_uniform_blocks

SpecBlocks == BlocksInit /\ [][BlocksNext]_vars

(***************************************************************************)
(* Claims about the block merger                                           *)
(***************************************************************************)
Merged == pc = "merged"

LinkedBlockStages == {i \in Stages : blockSt.shaders[i].linked}

\* every order in which the linked stages can be taken
StageOrders ==
  LET n == Cardinality(LinkedBlockStages)
  IN {o \in [1 .. n -> LinkedBlockStages] :
        \A a, b \in 1 .. n : a # b => o[a] # o[b]}

CanonicalSet(r) == {r.blks[j] : j \in 1 .. Len(r.blks)}

\* the canonical block the pointer of block l of stage i leads to
CanonicalOf(r, i, l) ==
  IF r.sh_blks[i][l][1] = "program" THEN r.blks[r.sh_blks[i][l][2]]
  ELSE blockSt.shaders[i].blocks[l]

SameMerge(r1, r2) ==
  /\ r1.ok = r2.ok
  /\ r1.ok =>
       /\ CanonicalSet(r1) = CanonicalSet(r2)
       /\ \A i \in LinkedBlockStages : \A l \in 1 .. Len(blockSt.shaders[i].blocks) :
            CanonicalOf(r1, i, l) = CanonicalOf(r2, i, l)

\* C7: whichever order the linked stages are merged in, the verdict, the set
\* of canonical blocks with their stage masks and the canonical block of
\* every per-stage block are those of the code's order.
C7_Confluence ==
  Merged =>
    \A o \in StageOrders :
       SameMerge(blockSt.out,
                 MergeInOrder(blockSt.shaders, blockSt.validate_ssbo, o))

\* two stages declare the same block and a further block differs between runs
\* of different orders only in its canonical index
C7_Witness ==
  /\ Merged /\ blockSt.out.ok
  /\ Len(blockSt.out.blks) = 2
  /\ \E j \in 1 .. 2 : Cardinality(blockSt.out.blks[j].stageref) >= 2
  /\ \E o \in StageOrders :
       MergeInOrder(blockSt.shaders, blockSt.validate_ssbo, o).blks # blockSt.out.blks

\* C8: after a successful merge, bit i of a canonical block's stage mask is
\* set exactly when linked stage i declares a block of that name, every
\* per-stage block pointer leads to the canonical block of its name, and a
\* block declared by the vertex and the fragment stage is one canonical block
\* with both bits.
C8_StagerefExact ==
  (Merged /\ blockSt.out.ok) =>
    /\ \A j \in 1 .. Len(blockSt.out.blks) : \A i \in Stages :
         (i \in blockSt.out.blks[j].stageref) <=>
            /\ i \in LinkedBlockStages
            /\ \E l \in 1 .. Len(blockSt.shaders[i].blocks) :
                 blockSt.shaders[i].blocks[l].Name = blockSt.out.blks[j].Name
    /\ \A i \in LinkedBlockStages : \A l \in 1 .. Len(blockSt.shaders[i].blocks) :
         /\ blockSt.out.sh_blks[i][l][1] = "program"
         /\ CanonicalOf(blockSt.out, i, l).Name = blockSt.shaders[i].blocks[l].Name
         /\ CanonicalOf(blockSt.out, i, l).layout = blockSt.shaders[i].blocks[l].layout
    /\ \A n \in BlockNames :
         ( /\ {MESA_SHADER_VERTEX, MESA_SHADER_FRAGMENT} \subseteq LinkedBlockStages
           /\ \A i \in {MESA_SHADER_VERTEX, MESA_SHADER_FRAGMENT} :
                \E l \in 1 .. Len(blockSt.shaders[i].blocks) : blockSt.shaders[i].blocks[l].Name = n )
         => /\ Cardinality({j \in 1 .. Len(blockSt.out.blks) : blockSt.out.blks[j].Name = n}) = 1
            /\ \A j \in 1 .. Len(blockSt.out.blks) :
                 blockSt.out.blks[j].Name = n =>
                   {MESA_SHADER_VERTEX, MESA_SHADER_FRAGMENT} \subseteq blockSt.out.blks[j].stageref

\* the vertex and the fragment stage declare one block identically
C8_Witness ==
  /\ Merged /\ blockSt.out.ok
  /\ \E j \in 1 .. Len(blockSt.out.blks) :
       blockSt.out.blks[j].stageref = {MESA_SHADER_VERTEX, MESA_SHADER_FRAGMENT}

(***************************************************************************)
(* cross_validate_globals (lines 1768-2001) on the declarations of one     *)
(* global name, one declaration per shader of the list.                    *)
(***************************************************************************)
\* the values an explicit location, an explicit binding and a constant
\* initializer are drawn from
LayoutValues == {1, 2}

\* layout(location = l, component = c): the declarations without explicit
\* location have location -1 and component 0
LocationQualifiers ==
  {[explicit_location |-> FALSE, location |-> -1, location_frac |-> 0]}
  \cup {[explicit_location |-> TRUE, location |-> l, location_frac |-> 0]
          : l \in LayoutValues}
  \cup {[explicit_location |-> TRUE, location |-> 1, location_frac |-> 2]}

\* a glsl_type: fields.array is the element type of an array, length is 0
\* for an array without a size
GlslType(is_array, element, length) ==
  [is_array |-> is_array, element |-> element, length |-> length]

\* one ir_variable of the name.  The declarations agree in type, offset, invariant, centroid, sample and
\* image_format and are not gl_FragDepth.
GlobalDecl(q, b, c) ==
  [type |-> GlslType(FALSE, "vec4", 0),
   max_array_access |-> 0,
   from_ssbo_unsized_array |-> FALSE,
   explicit_location |-> q.explicit_location,
   location |-> q.location,
   location_frac |-> q.location_frac,
   explicit_binding |-> b # 0,
   binding |-> b,
   constant_initializer |-> c,
   has_initializer |-> c # 0]

\* b = 0 stands for no layout(binding), c = 0 for a NULL constant_initializer
GlobalDecls ==
  {GlobalDecl(q, b, c) : q \in LocationQualifiers,
                         b \in {0} \cup LayoutValues,
                         c \in {0} \cup LayoutValues}

\* the shaders' variables, the entry of the symbol table `variables' (the
\* index of the remembered declaration, 0 when the name is new) and the log
GlobalsStart(decls) ==
  [vars |-> decls, existing |-> 0, log |-> <<>>, returned |-> FALSE]

GlobalsError(st, msg) ==
  [st EXCEPT !.log = Append(@, <<"error: ", msg, "uniform", "color">>),
             !.returned = TRUE]

\* lines 1839-1867
ValidateLocation(st, i) ==
  LET var == st.vars[i]
      existing == st.vars[st.existing]
  IN IF var.explicit_location
       THEN IF existing.explicit_location /\ var.location # existing.location
              THEN GlobalsError(st, "explicit locations have differing values")
            ELSE IF var.location_frac # existing.location_frac
              THEN GlobalsError(st, "explicit components have differing values")
            ELSE [st EXCEPT !.vars[st.existing].location = var.location,
                            !.vars[st.existing].explicit_location = TRUE]
       ELSE IF existing.explicit_location
              THEN [st EXCEPT !.vars[i].location = existing.location,
                              !.vars[i].explicit_location = TRUE]
            ELSE st

\* lines 1875-1886
ValidateBinding(st, i) ==
  LET var == st.vars[i]
      existing == st.vars[st.existing]
  IN IF var.explicit_binding
       THEN IF existing.explicit_binding /\ var.binding # existing.binding
              THEN GlobalsError(st, "explicit bindings have differing values")
            ELSE [st EXCEPT !.vars[st.existing].binding = var.binding,
                            !.vars[st.existing].explicit_binding = TRUE]
       ELSE st

\* lines 1944-1959: replace_variable makes var the remembered declaration
ValidateInitializer(st, i) ==
  LET var == st.vars[i]
      existing == st.vars[st.existing]
  IN IF var.constant_initializer # 0
       THEN IF existing.constant_initializer # 0
              THEN IF var.constant_initializer # existing.constant_initializer
                     THEN GlobalsError(st, "initializers have differing values")
                     ELSE st
              ELSE [st EXCEPT !.existing = i]
       ELSE st

\* lines 1961-1971; `existing' is still the declaration looked up at line 1805
ValidateHasInitializer(st, i, looked_up) ==
  LET var == st.vars[i]
      existing == st.vars[looked_up]
  IN IF var.has_initializer /\ existing.has_initializer
        /\ (var.constant_initializer = 0 \/ existing.constant_initializer = 0)
       THEN GlobalsError(st, "shared global variable has multiple non-constant initializers")
       ELSE st

\* linker_error without a return from cross_validate_globals
GlobalsErrorLogged(st, msg) ==
  [st EXCEPT !.log = Append(@, <<"error: ", msg, "uniform", "color">>)]

\* lines 1715-1762: the state after the call, with `accepted' its result
validate_intrastage_arrays(st, i) ==
  LET var == st.vars[i]
      existing == st.vars[st.existing]
      no == [st |-> st, accepted |-> FALSE]
  IN IF var.type.is_array /\ existing.type.is_array
       THEN IF var.type.element = existing.type.element
               /\ (var.type.length = 0 \/ existing.type.length = 0)
              THEN IF var.type.length # 0
                     THEN [st |-> [(IF var.type.length <= existing.max_array_access
                                      THEN GlobalsErrorLogged(st, "declared as type but outermost dimension has an index of")
                                      ELSE st)
                                     EXCEPT !.vars[st.existing].type = var.type],
                           accepted |-> TRUE]
                   ELSE IF existing.type.length # 0
                     THEN [st |-> IF existing.type.length <= var.max_array_access
                                     /\ ~existing.from_ssbo_unsized_array
                                    THEN GlobalsErrorLogged(st, "declared as type but outermost dimension has an index of")
                                    ELSE st,
                           accepted |-> TRUE]
                   ELSE no
              ELSE no
       ELSE no

\* lines 1810-1837; no declaration is a record, and a variable that comes
\* from an unsized array of a shader storage block has the mode
\* ir_var_shader_storage
ValidateType(st, i) ==
  LET var == st.vars[i]
      existing == st.vars[st.existing]
      arrays == validate_intrastage_arrays(st, i)
  IN IF var.type # existing.type
       THEN IF arrays.accepted THEN arrays.st
            ELSE IF var.from_ssbo_unsized_array /\ existing.from_ssbo_unsized_array
                    /\ var.type.element = existing.type.element
              THEN st
            ELSE GlobalsError(st, "declared as type and type")
       ELSE st

\* lines 1805-1998 for the variable of shader i
ValidateGlobal(st, i) ==
  IF st.existing = 0 THEN [st EXCEPT !.existing = i]
  ELSE LET looked_up == st.existing
           s1 == ValidateType(st, i)
           s2 == IF s1.returned THEN s1 ELSE ValidateLocation(s1, i)
           s3 == IF s2.returned THEN s2 ELSE ValidateBinding(s2, i)
           s4 == IF s3.returned THEN s3 ELSE ValidateInitializer(s3, i)
           s5 == IF s4.returned THEN s4 ELSE ValidateHasInitializer(s4, i, looked_up)
       IN s5

\* lines 1778-2000
RECURSIVE ValidateGlobals(_, _)
ValidateGlobals(st, i) ==
  IF st.returned \/ i > Len(st.vars) THEN st
  ELSE ValidateGlobals(ValidateGlobal(st, i), i + 1)

\* lines 1768-2001
cross_validate_globals_of(decls) ==
  LET st == ValidateGlobals(GlobalsStart(decls), 1)
  IN [ok |-> ~st.returned, vars |-> st.vars, existing |-> st.existing,
      log |-> st.log]

GlobalsInit ==
  /\ \E n \in 0 .. MaxDecls : \E decls \in [1 .. n -> GlobalDecls] :
       globSt = [decls |-> decls, out |-> "none"]
  /\ pc = "globals"
  /\ Shaders = <<>> /\ API = "API_OPENGL_CORE" /\ SeparateShader = FALSE
  /\ LinkStatus = TRUE /\ InfoLog = <<>> /\ LinkedShaders = AllNull
  /\ symbols = {} /\ stage = 0 /\ sh = "NULL" /\ prev = 0
  /\ num_tfeedback_decls = 0 /\ mem_ctx = TRUE /\ shader_list = TRUE
  /\ cleanups = 0 /\ links = 1 /\ late = {} /\ gaveUp = {}
  /\ allocSt = "unused" /\ blockSt = "unused" /\ callSt = "unused"

\* one call of cross_validate_globals on the shader list of globSt
cross_validate_globals ==
  /\ pc = "globals"
  /\ globSt' = [globSt EXCEPT !.out = cross_validate_globals_of(globSt.decls)]
  /\ pc' = "validated"
  /\ UNCHANGED <<driverData, allocSt, blockSt, callSt>>

GlobalsNext == cross_validate_globals

SpecGlobals == GlobalsInit /\ [][GlobalsNext]_vars

(***************************************************************************)
(* Claims about cross_validate_globals                                     *)
(***************************************************************************)
Validated == pc = "validated"

GlobalShaders == 1 .. Len(globSt.decls)

\* two declarations both give the qualifier, with different values
DifferingBindings ==
  \E i, j \in GlobalShaders :
     /\ globSt.decls[i].explicit_binding /\ globSt.decls[j].explicit_binding
     /\ globSt.decls[i].binding # globSt.decls[j].binding

DifferingLocations ==
  \E i, j \in GlobalShaders :
     /\ globSt.decls[i].explicit_location /\ globSt.decls[j].explicit_location
     /\ globSt.decls[i].location # globSt.decls[j].location

DifferingInitializers ==
  \E i, j \in GlobalShaders :
     /\ globSt.decls[i].constant_initializer # 0
     /\ globSt.decls[j].constant_initializer # 0
     /\ globSt.decls[i].constant_initializer # globSt.decls[j].constant_initializer

DifferingValuesError ==
  \E k \in 1 .. Len(globSt.out.log) :
     globSt.out.log[k][2] \in {"explicit bindings have differing values",
                               "explicit locations have differing values",
                               "explicit components have differing values",
                               "initializers have differing values"}

\* C10: whenever two declarations of the name, wherever they stand in the
\* list, both give a binding, both give a location or both give a constant
\* initializer, with different values, cross_validate_globals logs a "have
\* differing values" error for the name.
C10_ConflictDetected ==
  Validated =>
    ((DifferingBindings \/ DifferingLocations \/ DifferingInitializers)
       => DifferingValuesError)

(***************************************************************************)
(* The specifications below follow one call of one function: callSt holds  *)
(* its arguments and, once it has returned, its result; the driver is at   *)
(* rest.                                                                   *)
(***************************************************************************)
DriverAtRest ==
  /\ Shaders = <<>> /\ API = "API_OPENGL_CORE" /\ SeparateShader = FALSE
  /\ LinkStatus = TRUE /\ InfoLog = <<>> /\ LinkedShaders = AllNull
  /\ symbols = {} /\ stage = 0 /\ sh = "NULL" /\ prev = 0
  /\ num_tfeedback_decls = 0 /\ mem_ctx = TRUE /\ shader_list = TRUE
  /\ cleanups = 0 /\ links = 1 /\ late = {} /\ gaveUp = {}
  /\ allocSt = "unused" /\ blockSt = "unused" /\ globSt = "unused"

\* the call named `from' returns `result' and the position becomes `to'
Return(from, to, result) ==
  /\ pc = from
  /\ callSt' = [callSt EXCEPT !.out = result]
  /\ pc' = to
  /\ UNCHANGED <<driverData, allocSt, blockSt, globSt>>

(***************************************************************************)
(* link_intrastage_shaders, lines 3012-3106: the clone of the unit that    *)
(* defines main, populate_symbol_table, move_non_declarations and          *)
(* remap_variables (lines 2114-2268).                                      *)
(***************************************************************************)
\* the names of the non-temporary globals, in a fixed order of declaration
GlobalNameOrder == <<"color", "scale">>

GlobalNames == {GlobalNameOrder[k] : k \in 1 .. Len(GlobalNameOrder)}

\* a global-scope statement of a unit: an assignment through one of the unit's
\* globals, or the declaration of a temporary with an assignment through it
StmtsOf(decls) ==
  {[kind |-> "assign", name |-> n] : n \in decls} \cup {[kind |-> "temp", name |-> "tmp"]}

\* one unit of the stage: its global declarations, its global-scope
\* statements, and whether main calls a function of the unit whose body
\* refers to the unit's globals
IntraUnits ==
  UNION {{[decls |-> ds, stmts |-> st, fnrefs |-> f]
            : st \in UNION {[1 .. k -> StmtsOf(ds)] : k \in 0 .. MaxStmts},
              f \in BOOLEAN}
         : ds \in SUBSET GlobalNames}

\* an ir_variable of the linked shader: the clone of global `name' of unit `unit'
VarOf(unit, name) == [unit |-> unit, name |-> name]

\* symbols->get_variable(name): the set holds the entry, if there is one
get_variable(syms, name) == {d \in syms : d.name = name}

\* lines 3033-3035 and 2115-2130: the clone of main's unit and its symbol table
CloneOfMain(units, m) ==
  LET ir == SelectSeq([k \in 1 .. Len(GlobalNameOrder) |-> VarOf(m, GlobalNameOrder[k])],
                      LAMBDA d : d.name \in units[m].decls)
  IN [ir |-> ir,
      symbols |-> {ir[k] : k \in 1 .. Len(ir)},
      body |-> <<>>]

\* lines 2177-2187 with the lookup left out: every reference gets a clone
remap_visitor_clone(linked, unit, name) ==
  [linked EXCEPT !.symbols = @ \cup {VarOf(unit, name)},
                 !.ir = <<VarOf(unit, name)>> \o @,
                 !.body = Append(@, [kind |-> "assign", from |-> unit,
                                     var |-> VarOf(unit, name)])]

\* lines 2167-2190: a reference to a non-temporary of unit `unit' in a cloned
\* instruction is pointed at the linked shader's variable of that name, which
\* is cloned and pushed to the head of the instructions if there is none
remap_visitor(linked, unit, name) ==
  LET existing == get_variable(linked.symbols, name)
  IN IF existing # {}
       THEN [linked EXCEPT
               !.body = Append(@, [kind |-> "assign", from |-> unit,
                                   var |-> CHOOSE d \in existing : TRUE])]
       ELSE [linked EXCEPT
               !.symbols = @ \cup {VarOf(unit, name)},
               !.ir = <<VarOf(unit, name)>> \o @,
               !.body = Append(@, [kind |-> "assign", from |-> unit,
                                   var |-> VarOf(unit, name)])]

\* lines 2236-2262 with every statement inserted after the head sentinel
\* instead of after the statement inserted before it
MoveStatement_at_head(linked, unit, stmt, make_copies) ==
  LET r == IF stmt.kind = "temp"
             THEN [linked EXCEPT
                     !.body = @ \o <<[kind |-> "temporary", from |-> unit,
                                      var |-> VarOf(unit, "tmp")],
                                     [kind |-> "assign", from |-> unit,
                                      var |-> VarOf(unit, "tmp")]>>]
           ELSE IF make_copies THEN remap_visitor(linked, unit, stmt.name)
           ELSE [linked EXCEPT
                   !.body = Append(@, [kind |-> "assign", from |-> unit,
                                       var |-> VarOf(unit, stmt.name)])]
  IN [r EXCEPT !.body = SubSeq(r.body, Len(linked.body) + 1, Len(r.body))
                          \o linked.body]

\* lines 2236-2262 for one statement of unit `unit'
MoveStatement(linked, unit, stmt, make_copies) ==
  IF stmt.kind = "temp"
    THEN [linked EXCEPT
            !.body = @ \o <<[kind |-> "temporary", from |-> unit, var |-> VarOf(unit, "tmp")],
                            [kind |-> "assign", from |-> unit, var |-> VarOf(unit, "tmp")]>>]
  ELSE IF make_copies THEN remap_visitor(linked, unit, stmt.name)
  ELSE [linked EXCEPT
          !.body = Append(@, [kind |-> "assign", from |-> unit,
                              var |-> VarOf(unit, stmt.name)])]

\* lines 2226-2268
RECURSIVE move_non_declarations(_, _, _, _, _)
move_non_declarations(linked, units, unit, make_copies, k) ==
  IF k > Len(units[unit].stmts) THEN linked
  ELSE move_non_declarations(
         MoveStatement(linked, unit, units[unit].stmts[k], make_copies),
         units, unit, make_copies, k + 1)

\* lines 3060-3066
RECURSIVE MoveOtherUnits(_, _, _, _)
MoveOtherUnits(linked, units, m, i) ==
  IF i > Len(units) THEN linked
  ELSE MoveOtherUnits(
         IF i = m THEN linked
         ELSE move_non_declarations(linked, units, i, TRUE, 1),
         units, m, i + 1)

\* link_function_calls: the functions main calls are cloned from their units,
\* and each global their bodies refer to is looked up by name in the linked
\* shader and cloned when it is missing
RECURSIVE link_function_calls(_, _, _, _, _)
link_function_calls(linked, units, m, i, k) ==
  IF i > Len(units) THEN linked
  ELSE IF i = m \/ ~units[i].fnrefs \/ k > Len(GlobalNameOrder)
    THEN link_function_calls(linked, units, m, i + 1, 1)
  ELSE link_function_calls(
         IF GlobalNameOrder[k] \in units[i].decls
           THEN remap_visitor(linked, i, GlobalNameOrder[k]) ELSE linked,
         units, m, i, k + 1)

\* lines 3019-3031: the first unit that defines main; 0 if there is none
MainOf(mains) ==
  IF mains = {} THEN 0 ELSE SetMin(mains)

\* lines 3049-3050: the body of main as the unit that defines it wrote it; the
\* statements moved at lines 3056-3066 are inserted after its head sentinel
main_sig_body(m) == <<[kind |-> "main", from |-> m, var |-> VarOf(m, "main")]>>

\* lines 3012-3106; `resolved' is whether link_function_calls found every
\* function that is called
link_intrastage_shaders_of(units, mains, resolved) ==
  LET m == MainOf(mains)
      seed == CloneOfMain(units, m)
      moved == MoveOtherUnits(move_non_declarations(seed, units, m, FALSE, 1),
                              units, m, 1)
      linked == link_function_calls(moved, units, m, 1, 1)
  IN IF m = 0
       THEN [ok |-> FALSE, ir |-> <<>>, symbols |-> {}, body |-> <<>>,
             main_body |-> <<>>,
             log |-> <<<<"error: ", "shader lacks `main'">>>>]
     ELSE IF ~resolved
       THEN [ok |-> FALSE, ir |-> <<>>, symbols |-> {}, body |-> <<>>,
             main_body |-> <<>>,
             log |-> <<<<"error: ", "unresolved reference to function">>>>]
     ELSE [ok |-> TRUE, ir |-> linked.ir, symbols |-> linked.symbols,
           body |-> linked.body,
           main_body |-> moved.body \o main_sig_body(m), log |-> <<>>]

IntraInit ==
  /\ \E n \in 1 .. MaxUnits : \E units \in [1 .. n -> IntraUnits], m \in 0 .. n :
       callSt = [units |-> units, mains |-> IF m = 0 THEN {} ELSE {m}, out |-> "none"]
  /\ pc = "intrastage"
  /\ DriverAtRest

\* one call of link_intrastage_shaders on the units of callSt, which
\* cross_validate_globals has accepted
intrastage_link ==
  \E resolved \in BOOLEAN :
     Return("intrastage", "combined",
            link_intrastage_shaders_of(callSt.units, callSt.mains, resolved))

IntraNext == intrastage_link

SpecIntra == IntraInit /\ [][IntraNext]_vars

FragNames == {"gl_FragColor", "gl_FragData", "color"}

\* an ir_assignment
IrAssign(lhs) ==
  [kind |-> "assign", lhs |-> lhs, params |-> <<>>, ret |-> "NULL", body |-> <<>>]

\* an ir_call: the formal's mode and the variable of the actual for each
\* parameter, and the variable of return_deref ("NULL" where there is none)
IrCall(params, ret) ==
  [kind |-> "call", lhs |-> "NULL", params |-> params, ret |-> ret, body |-> <<>>]

\* an instruction that holds other instructions (a function, a branch, a loop)
IrBlock(body) ==
  [kind |-> "block", lhs |-> "NULL", params |-> <<>>, ret |-> "NULL", body |-> body]

FlatInstrs ==
  {IrAssign(n) : n \in FragNames}
  \cup {IrCall(ps, r) :
          ps \in {<<>>} \cup {<<[mode |-> m, actual |-> a]>> :
                                m \in {"ir_var_function_in", "ir_var_function_out",
                                       "ir_var_function_inout"},
                                a \in {"NULL", "gl_FragColor", "gl_FragData"}},
          r \in {"NULL", "gl_FragColor", "gl_FragData"}}

FragInstrs == FlatInstrs \cup {IrBlock(<<i>>) : i \in FlatInstrs}

\* lines 893-903 alone: only assignments count as writes
visit_enter_assignments(name, ir) ==
  ir.kind = "assign" /\ ir.lhs = name

\* lines 893-931: does the visitor find a write to `name' at instruction ir
visit_enter(name, ir) ==
  \/ ir.kind = "assign" /\ ir.lhs = name
  \/ /\ ir.kind = "call"
     /\ \/ \E k \in 1 .. Len(ir.params) :
             /\ ir.params[k].mode \in {"ir_var_function_out", "ir_var_function_inout"}
             /\ ir.params[k].actual # "NULL"
             /\ ir.params[k].actual = name
        \/ ir.ret # "NULL" /\ ir.ret = name

\* find_assignment_visitor(name).run(ir) and variable_found(): the walk over
\* the instructions and the ones they hold, which stops at the first write
RECURSIVE find_assignment_visitor(_, _, _)
find_assignment_visitor(name, ir, k) ==
  IF k > Len(ir) THEN FALSE
  ELSE IF visit_enter(name, ir[k]) THEN TRUE
  ELSE IF find_assignment_visitor(name, ir[k].body, 1) THEN TRUE
  ELSE find_assignment_visitor(name, ir, k + 1)

\* lines 1620-1637
validate_fragment_shader_executable_of(shader) ==
  IF ~shader.linked THEN [LinkStatus |-> TRUE, log |-> <<>>]
  ELSE LET frag_color == find_assignment_visitor("gl_FragColor", shader.ir, 1)
           frag_data == find_assignment_visitor("gl_FragData", shader.ir, 1)
       IN IF frag_color /\ frag_data
            THEN [LinkStatus |-> FALSE,
                  log |-> <<<<"error: ", "fragment shader writes to both `gl_FragColor' and `gl_FragData'">>>>]
            ELSE [LinkStatus |-> TRUE, log |-> <<>>]

FragInit ==
  /\ \E n \in 0 .. MaxInstrs : \E ir \in [1 .. n -> FragInstrs], linked \in BOOLEAN :
       /\ (~linked => n = 0)
       /\ callSt = [shader |-> [linked |-> linked, ir |-> ir], out |-> "none"]
  /\ pc = "fragment"
  /\ DriverAtRest

validate_fragment_shader_executable ==
  Return("fragment", "fragment_checked",
         validate_fragment_shader_executable_of(callSt.shader))

FragNext == validate_fragment_shader_executable

SpecFrag == FragInit /\ [][FragNext]_vars

\* every instruction of the shader, those held by other instructions included
AllInstrs(ir) ==
  {ir[k] : k \in 1 .. Len(ir)}
  \cup UNION {{ir[k].body[j] : j \in 1 .. Len(ir[k].body)} : k \in 1 .. Len(ir)}

\* the shader statically writes `name': by an assignment, as an out or inout
\* argument of a call, or as the target of a call's return value
StaticallyWrites(ir, name) ==
  \E i \in AllInstrs(ir) :
     \/ i.kind = "assign" /\ i.lhs = name
     \/ i.kind = "call" /\ i.ret = name
     \/ i.kind = "call" /\ \E k \in 1 .. Len(i.params) :
          i.params[k].actual = name /\ i.params[k].mode # "ir_var_function_in"

\* C12: a linked fragment stage gets the `writes to both' hard error exactly
\* when it statically writes gl_FragColor and also gl_FragData, by assignment,
\* as an out or inout call argument or as a call's return target.
C12_WritesBothIffError ==
  (pc = "fragment_checked" /\ callSt.shader.linked) =>
    ((StaticallyWrites(callSt.shader.ir, "gl_FragColor")
        /\ StaticallyWrites(callSt.shader.ir, "gl_FragData"))
      <=> (/\ ~callSt.out.LinkStatus
           /\ callSt.out.log
                = <<<<"error: ", "fragment shader writes to both `gl_FragColor' and `gl_FragData'">>>>))

\* gl_FragColor is assigned and gl_FragData is written only through a call
\* that sits inside another instruction, and the error is raised
C12_Witness ==
  /\ pc = "fragment_checked" /\ callSt.shader.linked
  /\ ~callSt.out.LinkStatus
  /\ \E k \in 1 .. Len(callSt.shader.ir) :
       callSt.shader.ir[k] = IrAssign("gl_FragColor")
  /\ \E k \in 1 .. Len(callSt.shader.ir) :
       /\ callSt.shader.ir[k].kind = "block"
       /\ callSt.shader.ir[k].body[1].kind = "call"
  /\ \A i \in AllInstrs(callSt.shader.ir) : i.kind = "assign" => i.lhs # "gl_FragData"

(***************************************************************************)
(* check_resources, lines 3879-3974.                                       *)
(***************************************************************************)
\* a resource count of a stage, or the size of a block: at the device's limit
\* or one above it
ResourceUse == {MaxLimit, MaxLimit + 1}

\* a linked stage with the counters check_resources reads
ResourceStages ==
  [num_samplers : ResourceUse, num_uniform_components : ResourceUse,
   num_combined_uniform_components : ResourceUse,
   NumUniformBlocks : ResourceUse, NumShaderStorageBlocks : ResourceUse]

\* ctx->Const: the limits of every stage are MaxLimit, the combined block
\* limits are one or two stages' worth
ResourceLimits ==
  [MaxTextureImageUnits : {MaxLimit}, MaxUniformComponents : {MaxLimit},
   MaxCombinedUniformComponents : {MaxLimit},
   MaxUniformBlocks : {MaxLimit}, MaxShaderStorageBlocks : {MaxLimit},
   MaxCombinedUniformBlocks : {MaxLimit, 2 * MaxLimit},
   MaxCombinedShaderStorageBlocks : {MaxLimit, 2 * MaxLimit},
   MaxUniformBlockSize : {MaxLimit}, MaxShaderStorageBlockSize : {MaxLimit},
   GLSLSkipStrictMaxUniformLimitCheck : BOOLEAN]

ResourceStart == [LinkStatus |-> TRUE, log |-> <<>>]

ResourceError(st, text, i) ==
  [st EXCEPT !.LinkStatus = FALSE, !.log = Append(@, <<"error: ", text, i>>)]

ResourceWarning(st, text, i) ==
  [st EXCEPT !.log = Append(@, <<"warning: ", text, i>>)]

\* lines 3892-3895
CheckSamplers(st, ctx, shs, i) ==
  IF shs[i].num_samplers > ctx.MaxTextureImageUnits
    THEN ResourceError(st, "Too many shader texture samplers", i) ELSE st

\* lines 3897-3911
CheckUniformComponents(st, ctx, shs, i) ==
  IF shs[i].num_uniform_components > ctx.MaxUniformComponents
    THEN IF ctx.GLSLSkipStrictMaxUniformLimitCheck
           THEN ResourceWarning(st, "Too many shader default uniform block components, but the driver will try to optimize them out", i)
           ELSE ResourceError(st, "Too many shader default uniform block components", i)
    ELSE st

\* lines 3913-3925
CheckCombinedUniformComponents(st, ctx, shs, i) ==
  IF shs[i].num_combined_uniform_components > ctx.MaxCombinedUniformComponents
    THEN IF ctx.GLSLSkipStrictMaxUniformLimitCheck
           THEN ResourceWarning(st, "Too many shader uniform components, but the driver will try to optimize them out", i)
           ELSE ResourceError(st, "Too many shader uniform components", i)
    ELSE st

\* lines 3930-3936
CheckUniformBlocks(st, ctx, shs, i) ==
  IF ctx.MaxUniformBlocks < shs[i].NumUniformBlocks
    THEN ResourceError(st, "Too many uniform blocks", i) ELSE st

\* lines 3938-3945
CheckShaderStorageBlocks(st, ctx, shs, i) ==
  IF ctx.MaxShaderStorageBlocks < shs[i].NumShaderStorageBlocks
    THEN ResourceError(st, "Too many shader storage blocks", i) ELSE st

\* lines 3886-3946: the loop over the linked stages
RECURSIVE CheckStages(_, _, _, _)
CheckStages(st, ctx, shs, i) ==
  IF i > Len(shs) THEN st
  ELSE CheckStages(
         CheckShaderStorageBlocks(
           CheckUniformBlocks(
             CheckCombinedUniformComponents(
               CheckUniformComponents(
                 CheckSamplers(st, ctx, shs, i), ctx, shs, i), ctx, shs, i),
             ctx, shs, i), ctx, shs, i),
         ctx, shs, i + 1)

\* lines 3927-3928: the totals over the linked stages
RECURSIVE TotalOf(_, _, _)
TotalOf(shs, field, i) ==
  IF i > Len(shs) THEN 0
  ELSE (IF field = "uniform" THEN shs[i].NumUniformBlocks
        ELSE shs[i].NumShaderStorageBlocks) + TotalOf(shs, field, i + 1)

\* lines 3948-3958
CheckTotals(st, ctx, shs) ==
  LET a == IF TotalOf(shs, "uniform", 1) > ctx.MaxCombinedUniformBlocks
             THEN ResourceError(st, "Too many combined uniform blocks", 0) ELSE st
  IN IF TotalOf(shs, "storage", 1) > ctx.MaxCombinedShaderStorageBlocks
       THEN ResourceError(a, "Too many combined shader storage blocks", 0) ELSE a

\* lines 3960-3978: the sizes of the program's blocks
RECURSIVE CheckBlockSizes(_, _, _, _, _)
CheckBlockSizes(st, sizes, limit, text, i) ==
  IF i > Len(sizes) THEN st
  ELSE CheckBlockSizes(
         IF sizes[i] > limit THEN ResourceError(st, text, i) ELSE st,
         sizes, limit, text, i + 1)

\* lines 3879-3974
check_resources_of(ctx, prog) ==
  CheckBlockSizes(
    CheckBlockSizes(
      CheckTotals(CheckStages(ResourceStart, ctx, prog.LinkedShaders, 1),
                  ctx, prog.LinkedShaders),
      prog.UniformBlocks, ctx.MaxUniformBlockSize, "Uniform block too big", 1),
    prog.ShaderStorageBlocks, ctx.MaxShaderStorageBlockSize,
    "Shader storage block too big", 1)

ResourceInit ==
  /\ \E ctx \in ResourceLimits :
     \E n \in 1 .. MaxResourceStages : \E shs \in [1 .. n -> ResourceStages] :
     \E ubo, ssbo \in {<<>>} \cup {<<z>> : z \in ResourceUse} :
       callSt = [ctx |-> ctx,
                 prog |-> [LinkedShaders |-> shs, UniformBlocks |-> ubo,
                           ShaderStorageBlocks |-> ssbo],
                 out |-> "none"]
  /\ pc = "resources"
  /\ DriverAtRest

check_resources_call ==
  Return("resources", "resources_checked",
         check_resources_of(callSt.ctx, callSt.prog))

ResourceNext == check_resources_call

SpecResources == ResourceInit /\ [][ResourceNext]_vars

\* some use of the program passes one of the limits check_resources checks
ExceedsDeviceLimit(ctx, prog) ==
  LET shs == prog.LinkedShaders
  IN \/ \E i \in 1 .. Len(shs) :
          \/ shs[i].num_samplers > ctx.MaxTextureImageUnits
          \/ shs[i].num_uniform_components > ctx.MaxUniformComponents
          \/ shs[i].num_combined_uniform_components > ctx.MaxCombinedUniformComponents
          \/ shs[i].NumUniformBlocks > ctx.MaxUniformBlocks
          \/ shs[i].NumShaderStorageBlocks > ctx.MaxShaderStorageBlocks
     \/ TotalOf(shs, "uniform", 1) > ctx.MaxCombinedUniformBlocks
     \/ TotalOf(shs, "storage", 1) > ctx.MaxCombinedShaderStorageBlocks
     \/ \E i \in 1 .. Len(prog.UniformBlocks) :
          prog.UniformBlocks[i] > ctx.MaxUniformBlockSize
     \/ \E i \in 1 .. Len(prog.ShaderStorageBlocks) :
          prog.ShaderStorageBlocks[i] > ctx.MaxShaderStorageBlockSize

\* C13: whenever a resource use passes a device limit that check_resources
\* checks, check_resources leaves LinkStatus false, whatever the device's
\* configuration is.
C13_ExcessFailsLink ==
  (pc = "resources_checked" /\ ExceedsDeviceLimit(callSt.ctx, callSt.prog))
    => ~callSt.out.LinkStatus

(***************************************************************************)
(* parse_program_resource_name, lines 1363-1405.                           *)
(***************************************************************************)
\* the characters of a resource name
NameChars == {"a", "[", "]", "0", "1", "-"}

\* isdigit
isdigit(c) == c \in {"0", "1"}

DigitValue(c) == IF c = "1" THEN 1 ELSE 0

\* name[k] of the C string: the characters, then the null terminator
CharAt(name, k) == IF k < Len(name) THEN name[k + 1] ELSE "NUL"

\* the digits strtol consumes from offset k on, as a number after `acc'
RECURSIVE strtol_digits(_, _, _)
strtol_digits(name, k, acc) ==
  IF isdigit(CharAt(name, k))
    THEN strtol_digits(name, k + 1, 10 * acc + DigitValue(CharAt(name, k)))
    ELSE acc

\* strtol(&name[k], NULL, 10): an optional sign, then the digits; 0 when
\* there is no digit
strtol(name, k) ==
  IF CharAt(name, k) = "-" THEN 0 - strtol_digits(name, k + 1, 0)
  ELSE strtol_digits(name, k, 0)

\* lines 1389-1390: the walk backwards over the digits before offset i
RECURSIVE WalkBack(_, _)
WalkBack(name, i) ==
  IF i > 0 /\ isdigit(CharAt(name, i - 1)) THEN WalkBack(name, i - 1) ELSE i

\* lines 1363-1405; the result is the returned index and the offset
\* *out_base_name_end points at
parse_program_resource_name_of(name) ==
  LET len == Len(name)
      i == WalkBack(name, len - 1)
      array_index == strtol(name, i)
      none == [index |-> -1, out_base_name_end |-> len]
  IN IF len = 0 \/ CharAt(name, len - 1) # "]" THEN none
     ELSE IF i = 0 \/ CharAt(name, i - 1) # "[" THEN none
     ELSE IF array_index < 0 THEN none
     ELSE IF CharAt(name, i) = "0" /\ CharAt(name, i + 1) # "]" THEN none
     ELSE [index |-> array_index, out_base_name_end |-> i - 1]

ParseInit ==
  /\ \E n \in 0 .. MaxNameLen : \E name \in [1 .. n -> NameChars] :
       callSt = [name |-> name, out |-> "none"]
  /\ pc = "parse"
  /\ DriverAtRest

parse_program_resource_name ==
  Return("parse", "parsed", parse_program_resource_name_of(callSt.name))

ParseNext == parse_program_resource_name

SpecParse == ParseInit /\ [][ParseNext]_vars

\* the name ends in `[', a decimal index of at least one digit without an
\* extra leading zero, and `]'; b is the offset of the `['
WellFormedIndexAt(name, b) ==
  /\ b + 2 < Len(name)
  /\ name[b + 1] = "["
  /\ name[Len(name)] = "]"
  /\ \A k \in b + 2 .. Len(name) - 1 : isdigit(name[k])
  /\ name[b + 2] = "0" => b + 3 = Len(name)

\* the value of the decimal digits of name from position k to position m
RECURSIVE DecimalValue(_, _, _)
DecimalValue(name, k, m) ==
  IF m < k THEN 0
  ELSE 10 * DecimalValue(name, k, m - 1) + DigitValue(name[m])

\* C14: parse_program_resource_name returns the index and the offset of the
\* `[' if and only if the name ends in `[', a well-formed decimal index of at
\* least one digit and `]'; for every other name it returns -1 and the offset
\* of the null terminator.
C14_IndexIffWellFormed ==
  pc = "parsed" =>
    LET name == callSt.name
        B == {b \in 0 .. Len(name) : WellFormedIndexAt(name, b)}
    IN IF B # {}
         THEN \E b \in B :
                callSt.out = [index |-> DecimalValue(name, b + 2, Len(name) - 1),
                              out_base_name_end |-> b]
         ELSE callSt.out = [index |-> -1, out_base_name_end |-> Len(name)]

(***************************************************************************)
(* find_available_slots, lines 3323-3343, on 32-bit masks: a mask is the   *)
(* set of its bits that are 1.                                             *)
(***************************************************************************)
\* the values the build can give 1 << needed_count: the shift is defined for
\* a count below the width of int; for a count of 32 the hardware either
\* shifts the bit out (0) or takes the count modulo 32 (1)
ShiftOfOne(needed_count) ==
  IF needed_count < 32 THEN {{needed_count}} ELSE {{}, {0}}

\* mask - 1 for a mask that has at most one bit: 0 - 1 wraps to all ones
MinusOne(mask) ==
  IF mask = {} THEN Bits ELSE {b \in Bits : \A c \in mask : b < c}

\* needed_mask <<= 1 on 32 bits
ShiftLeft(mask) == {b + 1 : b \in {c \in mask : c < 31}}

\* lines 3334-3339: the loop from bit i on
RECURSIVE SlotLoop(_, _, _, _)
SlotLoop(used_mask, needed_mask, i, max_bit_to_test) ==
  IF i > max_bit_to_test THEN -1
  ELSE IF needed_mask \ used_mask = needed_mask THEN i
  ELSE SlotLoop(used_mask, ShiftLeft(needed_mask), i + 1, max_bit_to_test)

\* lines 3323-3343, with one_shifted the value of 1 << needed_count
find_available_slots_32(used_mask, needed_count, one_shifted) ==
  LET needed_mask == MinusOne(one_shifted)
      max_bit_to_test == 32 - needed_count
  IN IF needed_count = 0 \/ max_bit_to_test < 0 \/ max_bit_to_test > 32
       THEN -1
       ELSE SlotLoop(used_mask, needed_mask, 0, max_bit_to_test)

\* the bits the used masks are built from
MaskBits == {0, 1, 15, 16, 31}

SlotsInit ==
  /\ \E used_mask \in (SUBSET MaskBits) \cup {Bits}, needed_count \in 0 .. 32 :
       callSt = [used_mask |-> used_mask, needed_count |-> needed_count, out |-> "none"]
  /\ pc = "slots"
  /\ DriverAtRest

find_available_slots_call ==
  \E one_shifted \in ShiftOfOne(callSt.needed_count) :
     Return("slots", "slots_found",
            [base |-> find_available_slots_32(callSt.used_mask, callSt.needed_count,
                                              one_shifted)])

SlotsNext == find_available_slots_call

SpecSlots == SlotsInit /\ [][SlotsNext]_vars

\* the bases at which needed_count clear bits of used_mask start
ClearRuns(used_mask, needed_count) ==
  {b \in 0 .. 32 - needed_count :
     \A k \in b .. b + needed_count - 1 : k \notin used_mask}

\* C15: find_available_slots returns the smallest base b, 0 <= b <= 32 - n,
\* such that bits b .. b+n-1 of used_mask are clear, and -1 exactly when there
\* is no such base or n = 0, for every n from 0 to 32.
C15_SmallestClearRun ==
  pc = "slots_found" =>
    LET runs == ClearRuns(callSt.used_mask, callSt.needed_count)
    IN callSt.out.base
         = IF callSt.needed_count = 0 \/ runs = {} THEN -1 ELSE SetMin(runs)

\* variable i is generic and its range of slots ends within max_index
WithinLimit(loc, i) ==
  (loc # -1 /\ loc >= generic_base(AllocIn)) =>
     (loc - generic_base(AllocIn)) + AllocIn.vars[i].type.slots <= max_index(AllocIn)

\* C16: after the allocator succeeds every generic variable with a location
\* lies within [generic_base, generic_base + max_index) with all its slots,
\* and a location given by the shader or the API whose range passes the limit
\* makes the allocator fail with a hard error.
C16_WithinLimit ==
  Allocated =>
    /\ allocSt.out.ok => \A i \in AllocVars : WithinLimit(allocSt.out.location[i], i)
    /\ (\E i \in AllocVars :
          UserLocated(i) /\ ~WithinLimit(BoundLocation(AllocIn, AllocIn.vars[i]), i))
         => (~allocSt.out.ok /\ \E k \in 1 .. Len(allocSt.out.log) :
                                  allocSt.out.log[k][1] = "error: ")

\* two variables of index 0 whose locations the shader or the API gave
\* occupy a common slot
UserOverlap ==
  \E i, j \in AllocVars :
     /\ i # j /\ UserLocated(i) /\ UserLocated(j)
     /\ BoundIndex(AllocIn, AllocIn.vars[i]) < 1
     /\ BoundIndex(AllocIn, AllocIn.vars[j]) < 1
     /\ SlotMask(BoundLocation(AllocIn, AllocIn.vars[i]), AllocIn.vars[i].type.slots)
          \cap SlotMask(BoundLocation(AllocIn, AllocIn.vars[j]), AllocIn.vars[j].type.slots) # {}

\* every location the shader or the API gave lies within the limit
UserLocationsValid ==
  \A i \in AllocVars :
     UserLocated(i) =>
        /\ BoundLocation(AllocIn, AllocIn.vars[i]) >= generic_base(AllocIn)
        /\ WithinLimit(BoundLocation(AllocIn, AllocIn.vars[i]), i)
        /\ (BoundIndex(AllocIn, AllocIn.vars[i]) >= 1 =>
              BoundLocation(AllocIn, AllocIn.vars[i]) - generic_base(AllocIn)
                < AllocIn.MaxDualSourceDrawBuffers)

Logged(class, text) ==
  \E k \in 1 .. Len(allocSt.out.log) :
     allocSt.out.log[k][1] = class /\ allocSt.out.log[k][2] = text

\* the program is one whose overlapping vertex inputs are tolerated
AliasingTolerated ==
  /\ AllocIn.target_index = MESA_SHADER_VERTEX
  /\ ~(AllocIn.IsES /\ AllocIn.Version >= 300)

\* the program is one whose overlapping variables are refused outright
AliasingRefused ==
  \/ AllocIn.target_index = MESA_SHADER_FRAGMENT /\ AllocIn.IsES
  \/ AllocIn.target_index = MESA_SHADER_VERTEX /\ AllocIn.IsES /\ AllocIn.Version >= 300

C17_WitnessRefused ==
  /\ Allocated /\ ~allocSt.out.ok
  /\ AliasingRefused /\ UserOverlap
  /\ Logged("error: ", "overlapping location is assigned")

\* outputs i and j both carry an explicit location, have the same index and
\* occupy a common slot
OverlappingOutputs(i, j) ==
  /\ i # j /\ AllocIn.vars[i].explicit_location /\ AllocIn.vars[j].explicit_location
  /\ BoundIndex(AllocIn, AllocIn.vars[i]) = BoundIndex(AllocIn, AllocIn.vars[j])
  /\ SlotMask(BoundLocation(AllocIn, AllocIn.vars[i]), AllocIn.vars[i].type.slots)
       \cap SlotMask(BoundLocation(AllocIn, AllocIn.vars[j]), AllocIn.vars[j].type.slots) # {}

\* the two outputs may share a location
CompatibleOutputs(i, j) ==
  /\ AllocIn.vars[i].type.base_type = AllocIn.vars[j].type.base_type
  /\ component_mask(AllocIn.vars[i]) \cap component_mask(AllocIn.vars[j]) = {}

\* C18: for fragment outputs of a non-ES program the allocator succeeds only
\* if every two overlapping outputs with explicit locations have the same base
\* type and disjoint component masks, in whichever order they are declared.
C18_AliasedOutputsCompatible ==
  (Allocated /\ allocSt.out.ok
     /\ AllocIn.target_index = MESA_SHADER_FRAGMENT /\ ~AllocIn.IsES) =>
    \A i, j \in AllocVars : OverlappingOutputs(i, j) => CompatibleOutputs(i, j)

\* the generic slots the located variables of the result occupy
OccupiedGenericSlots ==
  UNION {OccupiedSlots(allocSt.out, i) : i \in AllocVars}

\* the slots of them that variables of a dual-slot type occupy
DualSlotSlots ==
  UNION {OccupiedSlots(allocSt.out, i) : i \in {j \in AllocVars : AllocIn.vars[j].type.dual}}

\* C19: after the allocation of vertex inputs succeeds, the number of
\* occupied generic slots plus the number of slots occupied by dual-slot types
\* is at most MaxAttribs, and every input has its location.
C19_TotalAttribsWithinLimit ==
  (Allocated /\ allocSt.out.ok /\ AllocIn.target_index = MESA_SHADER_VERTEX) =>
    /\ \A i \in AllocVars : allocSt.out.location[i] # -1
    /\ Cardinality(OccupiedGenericSlots) + Cardinality(DualSlotSlots) <= AllocIn.MaxAttribs

\* a dual-slot input without a location was given one, next to no other input,
\* and the count is exactly MaxAttribs
C19_Witness ==
  /\ Allocated /\ allocSt.out.ok /\ AllocIn.target_index = MESA_SHADER_VERTEX
  /\ \E i \in AllocVars : AllocIn.vars[i].type.dual /\ ~UserLocated(i)
  /\ Cardinality(OccupiedGenericSlots) + Cardinality(DualSlotSlots) = AllocIn.MaxAttribs

(***************************************************************************)
(* cross_validate_globals on declarations of one array, lines 1805-1837    *)
(* and validate_intrastage_arrays, lines 1715-1762.                        *)
(***************************************************************************)
\* a declaration of the array with no layout qualifier and no initializer
ArrayDecl(element, length, access, from_ssbo) ==
  [GlobalDecl([explicit_location |-> FALSE, location |-> -1, location_frac |-> 0], 0, 0)
     EXCEPT !.type = GlslType(TRUE, element, length),
            !.max_array_access = access,
            !.from_ssbo_unsized_array = from_ssbo]

\* the declarations of the array: without a size and with the largest index
\* the shader uses, or with a size that every index the shader uses is below
ArrayDecls ==
  {ArrayDecl(e, 0, a, f) : e \in {"float", "int"}, a \in 0 .. MaxArrayLen, f \in BOOLEAN}
  \cup UNION {{ArrayDecl(e, n, a, f) : e \in {"float", "int"}, a \in 0 .. n - 1, f \in BOOLEAN}
                : n \in 1 .. MaxArrayLen}

ArraysInit ==
  /\ \E n \in 0 .. MaxDecls : \E decls \in [1 .. n -> ArrayDecls] :
       callSt = [decls |-> decls, out |-> "none"]
  /\ pc = "arrays"
  /\ DriverAtRest

\* one call of cross_validate_globals on the declarations of callSt
cross_validate_arrays ==
  Return("arrays", "arrays_validated", cross_validate_globals_of(callSt.decls))

ArraysNext == cross_validate_arrays

SpecArrays == ArraysInit /\ [][ArraysNext]_vars

ArrayShaders == 1 .. Len(callSt.decls)

ArrayErrorLogged ==
  \E k \in 1 .. Len(callSt.out.log) : callSt.out.log[k][1] = "error: "

\* declaration i has a size that does not exceed the largest index that
\* declaration j, which has no size, uses
SizeNotAboveAccess(i, j) ==
  /\ callSt.decls[i].type.element = callSt.decls[j].type.element
  /\ callSt.decls[i].type.length # 0 /\ callSt.decls[j].type.length = 0
  /\ callSt.decls[i].type.length <= callSt.decls[j].max_array_access
  /\ ~callSt.decls[i].from_ssbo_unsized_array

\* C20: declarations of an array with and without a size and the same
\* element type are accepted as one global; the remembered declaration takes
\* the type with the size; and the link fails whenever the size is not above
\* the largest index another declaration without a size uses, unless the
\* sized array comes from an unsized member of a shader storage block.
C20_ArraySizes ==
  pc = "arrays_validated" =>
    LET sized == {i \in ArrayShaders : callSt.decls[i].type.length # 0}
        one_type == \A i, j \in ArrayShaders :
                      /\ callSt.decls[i].type.element = callSt.decls[j].type.element
                      /\ \A a, b \in sized : callSt.decls[a].type = callSt.decls[b].type
    IN /\ one_type => callSt.out.ok
       /\ (one_type /\ sized # {}) =>
            \E i \in sized : callSt.out.vars[callSt.out.existing].type = callSt.decls[i].type
       /\ (\E i, j \in ArrayShaders : SizeNotAboveAccess(i, j)) => ArrayErrorLogged

\* C21: after cross_validate_globals succeeds, if any declaration of the name
\* carries an explicit location then every declaration of the list has its
\* explicit-location flag set and the same location, whatever the order and
\* the number of the declarations.
C21_LocationPropagated ==
  (Validated /\ globSt.out.ok) =>
    ((\E i \in GlobalShaders : globSt.decls[i].explicit_location) =>
       \A i, j \in GlobalShaders :
          /\ globSt.out.vars[i].explicit_location
          /\ globSt.out.vars[i].location = globSt.out.vars[j].location)

(***************************************************************************)
(* link_tcs_out_layout_qualifiers (lines 2545-2592),                       *)
(* link_gs_inout_layout_qualifiers (lines 2773-2877) and                   *)
(* link_cs_input_layout_qualifiers (lines 2885-2939), as                   *)
(* link_intrastage_shaders calls them at lines 3037-3043.                  *)
(***************************************************************************)
\* the layout qualifiers of one unit; 0, PRIM_UNKNOWN and -1 stand for a
\* qualifier the unit does not declare
LayoutUnit(tcs, input, output, vertices, invocations, size) ==
  [TessCtrl |-> [VerticesOut |-> tcs],
   Geom |-> [InputType |-> input, OutputType |-> output,
             VerticesOut |-> vertices, Invocations |-> invocations],
   Comp |-> [LocalSize |-> size]]

PrimTypes == {"PRIM_UNKNOWN", "GL_POINTS", "GL_TRIANGLES"}

LocalSizes == {<<0, 0, 0>>, <<1, 1, 1>>, <<1, 2, 1>>}

\* the units a stage can have: a unit declares only the qualifiers of its
\* stage
LayoutUnits(Stage) ==
  IF Stage = MESA_SHADER_TESS_CTRL
    THEN {LayoutUnit(v, "PRIM_UNKNOWN", "PRIM_UNKNOWN", -1, 0, <<0, 0, 0>>) : v \in 0 .. 2}
  ELSE IF Stage = MESA_SHADER_GEOMETRY
    THEN {LayoutUnit(0, i, o, v, n, <<0, 0, 0>>)
            : i \in PrimTypes, o \in PrimTypes, v \in -1 .. 1, n \in 0 .. 2}
  ELSE IF Stage = MESA_SHADER_COMPUTE
    THEN {LayoutUnit(0, "PRIM_UNKNOWN", "PRIM_UNKNOWN", -1, 0, z) : z \in LocalSizes}
  ELSE {LayoutUnit(0, "PRIM_UNKNOWN", "PRIM_UNKNOWN", -1, 0, <<0, 0, 0>>)}

\* the linked shader and the program before the three functions have run
LayoutStart(Stage) ==
  [Stage |-> Stage,
   linked |-> LayoutUnit(0, "PRIM_UNKNOWN", "PRIM_UNKNOWN", -1, 0, <<0, 0, 0>>),
   prog |-> LayoutUnit(0, "PRIM_UNKNOWN", "PRIM_UNKNOWN", -1, 0, <<0, 0, 0>>),
   log |-> <<>>, returned |-> FALSE]

LayoutError(st, msg) ==
  [st EXCEPT !.log = Append(@, <<"error: ", msg>>), !.returned = TRUE]

\* a unit's qualifier is taken without the comparison with the value so far
TakeQualifier_unchecked(so_far, declared, none) ==
  [value |-> IF declared # none THEN declared ELSE so_far, conflict |-> FALSE]

\* lines 2571-2581, 2800-2808, 2810-2818, 2820-2830, 2832-2842, 2910-2923:
\* a unit that declares the qualifier must agree with the value so far, and
\* its value is taken
TakeQualifier(so_far, declared, none) ==
  IF declared # none
    THEN [value |-> declared, conflict |-> so_far # none /\ so_far # declared]
    ELSE [value |-> so_far, conflict |-> FALSE]

\* lines 2568-2582
RECURSIVE TcsLoop(_, _, _)
TcsLoop(st, list, i) ==
  IF i > Len(list) THEN st
  ELSE LET t == TakeQualifier(st.linked.TessCtrl.VerticesOut,
                              list[i].TessCtrl.VerticesOut, 0)
       IN IF t.conflict
            THEN LayoutError(st, "tessellation control shader defined with conflicting output vertex count")
            ELSE TcsLoop([st EXCEPT !.linked.TessCtrl.VerticesOut = t.value],
                         list, i + 1)

\* lines 2545-2592
link_tcs_out_layout_qualifiers(st0, list) ==
  LET st == [st0 EXCEPT !.linked.TessCtrl.VerticesOut = 0, !.returned = FALSE]
      looped == TcsLoop(st, list, 1)
  IN IF st.Stage # MESA_SHADER_TESS_CTRL THEN st
     ELSE IF looped.returned THEN looped
     ELSE IF looped.linked.TessCtrl.VerticesOut = 0
       THEN LayoutError(looped, "tessellation control shader didn't declare vertices out layout qualifier")
     ELSE [looped EXCEPT !.prog.TessCtrl.VerticesOut = looped.linked.TessCtrl.VerticesOut]

\* lines 2797-2843
RECURSIVE GsLoop(_, _, _)
GsLoop(st, list, i) ==
  IF i > Len(list) THEN st
  ELSE LET shader == list[i]
           a == TakeQualifier(st.linked.Geom.InputType, shader.Geom.InputType, "PRIM_UNKNOWN")
           b == TakeQualifier(st.linked.Geom.OutputType, shader.Geom.OutputType, "PRIM_UNKNOWN")
           c == TakeQualifier(st.linked.Geom.VerticesOut, shader.Geom.VerticesOut, -1)
           d == TakeQualifier(st.linked.Geom.Invocations, shader.Geom.Invocations, 0)
           sa == [st EXCEPT !.linked.Geom.InputType = a.value]
           sb == [sa EXCEPT !.linked.Geom.OutputType = b.value]
           sc == [sb EXCEPT !.linked.Geom.VerticesOut = c.value]
           sd == [sc EXCEPT !.linked.Geom.Invocations = d.value]
       IN IF a.conflict
            THEN LayoutError(st, "geometry shader defined with conflicting input types")
          ELSE IF b.conflict
            THEN LayoutError(sa, "geometry shader defined with conflicting output types")
          ELSE IF c.conflict
            THEN LayoutError(sb, "geometry shader defined with conflicting output vertex count")
          ELSE IF d.conflict
            THEN LayoutError(sc, "geometry shader defined with conflicting invocation count")
          ELSE GsLoop(sd, list, i + 1)

\* lines 2773-2877; the program of a geometry stage has Version >= 150
link_gs_inout_layout_qualifiers(st0, list) ==
  LET st == [st0 EXCEPT !.linked.Geom = [InputType |-> "PRIM_UNKNOWN",
                                         OutputType |-> "PRIM_UNKNOWN",
                                         VerticesOut |-> -1, Invocations |-> 0],
                        !.returned = FALSE]
      looped == GsLoop(st, list, 1)
      g == looped.linked.Geom
      p1 == [looped EXCEPT !.prog.Geom.InputType = g.InputType]
      p2 == [p1 EXCEPT !.prog.Geom.OutputType = g.OutputType]
      p3 == [p2 EXCEPT !.prog.Geom.VerticesOut = g.VerticesOut]
      n == IF g.Invocations = 0 THEN 1 ELSE g.Invocations
  IN IF st.Stage # MESA_SHADER_GEOMETRY THEN st
     ELSE IF looped.returned THEN looped
     ELSE IF g.InputType = "PRIM_UNKNOWN"
       THEN LayoutError(looped, "geometry shader didn't declare primitive input type")
     ELSE IF g.OutputType = "PRIM_UNKNOWN"
       THEN LayoutError(p1, "geometry shader didn't declare primitive output type")
     ELSE IF g.VerticesOut = -1
       THEN LayoutError(p2, "geometry shader didn't declare max_vertices")
     ELSE [p3 EXCEPT !.linked.Geom.Invocations = n, !.prog.Geom.Invocations = n]

\* lines 2907-2924: a unit declares the local size when LocalSize[0] is not 0
RECURSIVE CsLoop(_, _, _)
CsLoop(st, list, k) ==
  IF k > Len(list) THEN st
  ELSE LET shader == list[k]
       IN IF shader.Comp.LocalSize[1] # 0
            THEN IF st.linked.Comp.LocalSize[1] # 0
                    /\ \E i \in 1 .. 3 :
                         st.linked.Comp.LocalSize[i] # shader.Comp.LocalSize[i]
                   THEN LayoutError(st, "compute shader defined with conflicting local sizes")
                   ELSE CsLoop([st EXCEPT !.linked.Comp.LocalSize = shader.Comp.LocalSize],
                               list, k + 1)
            ELSE CsLoop(st, list, k + 1)

\* lines 2885-2939
link_cs_input_layout_qualifiers(st0, list) ==
  LET st == [st0 EXCEPT !.linked.Comp.LocalSize = <<0, 0, 0>>, !.returned = FALSE]
      looped == CsLoop(st, list, 1)
  IN IF st.Stage # MESA_SHADER_COMPUTE THEN st
     ELSE IF looped.returned THEN looped
     ELSE IF looped.linked.Comp.LocalSize[1] = 0
       THEN LayoutError(looped, "compute shader didn't declare local size")
     ELSE [looped EXCEPT !.prog.Comp.LocalSize = looped.linked.Comp.LocalSize]

\* lines 3037-3043: the three functions in the order of the calls
link_layout_qualifiers_of(Stage, list) ==
  LET st == link_cs_input_layout_qualifiers(
              link_gs_inout_layout_qualifiers(
                link_tcs_out_layout_qualifiers(LayoutStart(Stage), list),
                list),
              list)
  IN [LinkStatus |-> st.log = <<>>, linked |-> st.linked, prog |-> st.prog,
      log |-> st.log]

LayoutInit ==
  /\ \E Stage \in {MESA_SHADER_VERTEX, MESA_SHADER_TESS_CTRL,
                   MESA_SHADER_GEOMETRY, MESA_SHADER_COMPUTE} :
     \E n \in 1 .. MaxUnits : \E list \in [1 .. n -> LayoutUnits(Stage)] :
       callSt = [Stage |-> Stage, shader_list |-> list, out |-> "none"]
  /\ pc = "layout"
  /\ DriverAtRest

link_layout_qualifiers ==
  Return("layout", "layout_linked",
         link_layout_qualifiers_of(callSt.Stage, callSt.shader_list))

LayoutNext == link_layout_qualifiers

SpecLayout == LayoutInit /\ [][LayoutNext]_vars

\* the values the units declare for the qualifiers their stage requires
\* (`required') and for all of its qualifiers (`all')
DeclaredValues(Stage, list) ==
  LET U == {list[i] : i \in 1 .. Len(list)}
      tcs == {u.TessCtrl.VerticesOut : u \in U} \ {0}
      input == {u.Geom.InputType : u \in U} \ {"PRIM_UNKNOWN"}
      output == {u.Geom.OutputType : u \in U} \ {"PRIM_UNKNOWN"}
      vertices == {u.Geom.VerticesOut : u \in U} \ {-1}
      invocations == {u.Geom.Invocations : u \in U} \ {0}
      size == {u.Comp.LocalSize : u \in U} \ {<<0, 0, 0>>}
  IN IF Stage = MESA_SHADER_TESS_CTRL
       THEN [required |-> <<tcs>>, all |-> <<tcs>>]
     ELSE IF Stage = MESA_SHADER_GEOMETRY
       THEN [required |-> <<input, output, vertices>>,
             all |-> <<input, output, vertices, invocations>>]
     ELSE IF Stage = MESA_SHADER_COMPUTE
       THEN [required |-> <<size>>, all |-> <<size>>]
     ELSE [required |-> <<>>, all |-> <<>>]

\* the values the linked stage ends with, in the order of DeclaredValues
ResolvedValues(Stage, linked) ==
  IF Stage = MESA_SHADER_TESS_CTRL THEN <<linked.TessCtrl.VerticesOut>>
  ELSE IF Stage = MESA_SHADER_GEOMETRY
    THEN <<linked.Geom.InputType, linked.Geom.OutputType, linked.Geom.VerticesOut>>
  ELSE IF Stage = MESA_SHADER_COMPUTE THEN <<linked.Comp.LocalSize>>
  ELSE <<>>

\* the lists that hold the same units in another order
Reorderings(list) ==
  {[a \in 1 .. Len(list) |-> list[p[a]]] :
     p \in {q \in [1 .. Len(list) -> 1 .. Len(list)] :
              \A a, b \in 1 .. Len(list) : a # b => q[a] # q[b]}}

\* C22: the link of the layout qualifiers fails if and only if two units
\* declare different values of a qualifier or no unit declares a qualifier the
\* stage requires; when it succeeds each resolved value is the single value
\* the units declare; and the verdict and the resolved values are the same
\* for every order of the units.
C22_LayoutQualifiers ==
  pc = "layout_linked" =>
    LET dv == DeclaredValues(callSt.Stage, callSt.shader_list)
        rv == ResolvedValues(callSt.Stage, callSt.out.linked)
    IN /\ ~callSt.out.LinkStatus
            <=> \/ \E k \in 1 .. Len(dv.all) : Cardinality(dv.all[k]) > 1
                \/ \E k \in 1 .. Len(dv.required) : dv.required[k] = {}
       /\ callSt.out.LinkStatus
            => \A k \in 1 .. Len(rv) : dv.required[k] = {rv[k]}
       /\ \A l \in Reorderings(callSt.shader_list) :
            LET o == link_layout_qualifiers_of(callSt.Stage, l)
            IN /\ o.LinkStatus = callSt.out.LinkStatus
               /\ o.LinkStatus =>
                    ResolvedValues(callSt.Stage, o.linked) = rv

\* a geometry stage whose input type is declared by the second unit only and
\* whose other qualifiers are declared by the first links with these values
C22_Witness ==
  /\ pc = "layout_linked" /\ callSt.out.LinkStatus
  /\ callSt.Stage = MESA_SHADER_GEOMETRY
  /\ Len(callSt.shader_list) = 2
  /\ callSt.shader_list[1].Geom.InputType = "PRIM_UNKNOWN"
  /\ callSt.shader_list[2].Geom.OutputType = "PRIM_UNKNOWN"
  /\ callSt.out.linked.Geom.InputType = callSt.shader_list[2].Geom.InputType
  /\ callSt.out.linked.Geom.OutputType = callSt.shader_list[1].Geom.OutputType

(***************************************************************************)
(* The order of the statements link_intrastage_shaders moves into main,    *)
(* lines 3056-3066.                                                        *)
(***************************************************************************)
\* the global-scope statements of unit i as they stand in the unit
StatementsOfUnit(units, i) ==
  LET one(s) == IF s.kind = "temp"
                  THEN <<[kind |-> "temporary", from |-> i, name |-> "tmp"],
                         [kind |-> "assign", from |-> i, name |-> "tmp"]>>
                  ELSE <<[kind |-> "assign", from |-> i, name |-> s.name]>>
      RECURSIVE all(_)
      all(k) == IF k > Len(units[i].stmts) THEN <<>>
                ELSE one(units[i].stmts[k]) \o all(k + 1)
  IN all(1)

\* the statements of the units from position i on, leaving out unit `but'
RECURSIVE StatementsInListOrder(_, _, _)
StatementsInListOrder(units, but, i) ==
  IF i > Len(units) THEN <<>>
  ELSE (IF i = but THEN <<>> ELSE StatementsOfUnit(units, i))
         \o StatementsInListOrder(units, but, i + 1)

\* what a body holds: each statement's kind, unit and variable name
BodyOrder(body) ==
  [k \in 1 .. Len(body) |->
     [kind |-> body[k].kind, from |-> body[k].from, name |-> body[k].var.name]]

VertexNames == {"gl_Position", "gl_ClipVertex", "gl_ClipDistance", "gl_CullDistance"}

VertexInstrs ==
  {IrAssign(n) : n \in VertexNames} \cup {IrBlock(<<IrAssign(n)>>) : n \in VertexNames}

\* prog->IsES and prog->Version
GlslVersions ==
  {[IsES |-> FALSE, Version |-> v] : v \in {110, 130, 140}}
  \cup {[IsES |-> TRUE, Version |-> v] : v \in {100, 300}}

\* the program and the context as validate_vertex_shader_executable reads
\* them: the lengths of gl_ClipDistance and gl_CullDistance are those of the
\* shader's declarations
VertexPrograms ==
  {[IsES |-> g.IsES, Version |-> g.Version, LinkStatus |-> l, MaxClipPlanes |-> m,
    clip_length |-> c, cull_length |-> u,
    ClipDistanceArraySize |-> 0, CullDistanceArraySize |-> 0]
     : g \in GlslVersions, l \in BOOLEAN, m \in 1 .. MaxLimit,
       c \in 1 .. MaxArrayLen, u \in 1 .. MaxArrayLen}

VertexMessage(kind, msg) == <<kind, msg>>

\* lines 1451-1533
analyze_clip_cull_usage(prog, ir) ==
  LET clip_distance == find_assignment_visitor("gl_ClipDistance", ir, 1)
      cull_distance == find_assignment_visitor("gl_CullDistance", ir, 1)
      clip_vertex == find_assignment_visitor("gl_ClipVertex", ir, 1)
      clip_size == IF clip_distance THEN prog.clip_length ELSE 0
      cull_size == IF cull_distance THEN prog.cull_length ELSE 0
      none == [LinkStatus |-> prog.LinkStatus, log |-> <<>>,
               ClipDistanceArraySize |-> 0, CullDistanceArraySize |-> 0]
  IN IF prog.Version >= (IF prog.IsES THEN 300 ELSE 130)
       THEN IF ~prog.IsES /\ clip_vertex /\ clip_distance
              THEN [none EXCEPT
                      !.LinkStatus = FALSE,
                      !.log = <<VertexMessage("error: ", "vertex shader writes to both `gl_ClipVertex' and `gl_ClipDistance'")>>]
            ELSE IF ~prog.IsES /\ clip_vertex /\ cull_distance
              THEN [none EXCEPT
                      !.LinkStatus = FALSE,
                      !.log = <<VertexMessage("error: ", "vertex shader writes to both `gl_ClipVertex' and `gl_CullDistance'")>>]
            ELSE IF clip_size + cull_size > prog.MaxClipPlanes
              THEN [LinkStatus |-> FALSE,
                    log |-> <<VertexMessage("error: ", "vertex shader: the combined size of 'gl_ClipDistance' and 'gl_CullDistance' size cannot be larger than gl_MaxCombinedClipAndCullDistances")>>,
                    ClipDistanceArraySize |-> clip_size,
                    CullDistanceArraySize |-> cull_size]
            ELSE [none EXCEPT !.ClipDistanceArraySize = clip_size,
                              !.CullDistanceArraySize = cull_size]
     ELSE none

\* lines 1546-1599 with the missing write an error for every program
validate_vertex_shader_executable_strict(prog, shader) ==
  LET untouched == [LinkStatus |-> prog.LinkStatus, log |-> <<>>,
                    ClipDistanceArraySize |-> prog.ClipDistanceArraySize,
                    CullDistanceArraySize |-> prog.CullDistanceArraySize]
  IN IF ~shader.linked THEN untouched
     ELSE IF /\ prog.Version < (IF prog.IsES THEN 300 ELSE 140)
             /\ ~find_assignment_visitor("gl_Position", shader.ir, 1)
       THEN [untouched EXCEPT
               !.LinkStatus = FALSE,
               !.log = <<VertexMessage("error: ", "vertex shader does not write to `gl_Position'. ")>>]
     ELSE analyze_clip_cull_usage(prog, shader.ir)

\* lines 1546-1599
validate_vertex_shader_executable_of(prog, shader) ==
  LET untouched == [LinkStatus |-> prog.LinkStatus, log |-> <<>>,
                    ClipDistanceArraySize |-> prog.ClipDistanceArraySize,
                    CullDistanceArraySize |-> prog.CullDistanceArraySize]
  IN IF ~shader.linked THEN untouched
     ELSE IF /\ prog.Version < (IF prog.IsES THEN 300 ELSE 140)
             /\ ~find_assignment_visitor("gl_Position", shader.ir, 1)
       THEN IF prog.IsES
              THEN [untouched EXCEPT
                      !.log = <<VertexMessage("warning: ", "vertex shader does not write to `gl_Position'.It's value is undefined. ")>>]
              ELSE [untouched EXCEPT
                      !.LinkStatus = FALSE,
                      !.log = <<VertexMessage("error: ", "vertex shader does not write to `gl_Position'. ")>>]
     ELSE analyze_clip_cull_usage(prog, shader.ir)

VertexInit ==
  /\ \E n \in 0 .. MaxInstrs : \E ir \in [1 .. n -> VertexInstrs], linked \in BOOLEAN :
       \E prog \in VertexPrograms :
          /\ (~linked => n = 0)
          /\ callSt = [prog |-> prog, shader |-> [linked |-> linked, ir |-> ir],
                       out |-> "none"]
  /\ pc = "vertex"
  /\ DriverAtRest

validate_vertex_shader_executable ==
  Return("vertex", "vertex_checked",
         validate_vertex_shader_executable_of(callSt.prog, callSt.shader))

VertexNext == validate_vertex_shader_executable

SpecVertex == VertexInit /\ [][VertexNext]_vars

\* the linked vertex stage of callSt has been validated and does not write
\* gl_Position anywhere
PositionNeverWritten ==
  /\ pc = "vertex_checked" /\ callSt.shader.linked
  /\ ~StaticallyWrites(callSt.shader.ir, "gl_Position")

\* the versions validate_vertex_shader_executable checks the write for
OlderVersion == callSt.prog.Version < (IF callSt.prog.IsES THEN 300 ELSE 140)

PositionMessages(kind) ==
  {k \in 1 .. Len(callSt.out.log) :
     /\ callSt.out.log[k][1] = kind
     /\ callSt.out.log[k][2] \in
          {"vertex shader does not write to `gl_Position'. ",
           "vertex shader does not write to `gl_Position'.It's value is undefined. "}}

\* C24: when the linked vertex stage never writes gl_Position, an older
\* language version fails the link with a hard error, and a newer one gets a
\* warning and keeps the LinkStatus it had.
C24_ErrorOrWarning ==
  PositionNeverWritten =>
    IF OlderVersion
      THEN ~callSt.out.LinkStatus /\ PositionMessages("error: ") # {}
      ELSE /\ PositionMessages("warning: ") # {}
           /\ callSt.out.LinkStatus = callSt.prog.LinkStatus

\* C24 as the code has it: the hard error is for non-ES programs below
\* version 140, the warning with LinkStatus unchanged for ES programs below
\* version 300, and every other program gets no message about gl_Position and
\* goes on to the clip and cull distance checks, which alone can fail it.
C24_ErrorWarningOrSilence ==
  PositionNeverWritten =>
    IF OlderVersion /\ ~callSt.prog.IsES
      THEN /\ ~callSt.out.LinkStatus
           /\ PositionMessages("error: ") = {1} /\ Len(callSt.out.log) = 1
    ELSE IF OlderVersion
      THEN /\ callSt.out.LinkStatus = callSt.prog.LinkStatus
           /\ PositionMessages("warning: ") = {1} /\ Len(callSt.out.log) = 1
    ELSE /\ PositionMessages("error: ") \cup PositionMessages("warning: ") = {}
         /\ callSt.out = analyze_clip_cull_usage(callSt.prog, callSt.shader.ir)
         /\ (callSt.out.log = <<>> => callSt.out.LinkStatus = callSt.prog.LinkStatus)

\* an ES 100 program that linked so far gets the warning and stays linked
C24_Witness ==
  /\ PositionNeverWritten
  /\ callSt.prog.IsES /\ callSt.prog.Version = 100 /\ callSt.prog.LinkStatus
  /\ callSt.out.LinkStatus
  /\ PositionMessages("warning: ") = {1}

\* a version 140 program that does not write gl_Position gets no message
C24_WitnessSilent ==
  /\ PositionNeverWritten
  /\ ~callSt.prog.IsES /\ callSt.prog.Version = 140
  /\ callSt.out.log = <<>>

(***************************************************************************)
(* build_program_resource_list, lines 4933-5086, and add_program_resource, *)
(* lines 4347-4379.                                                        *)
(***************************************************************************)
MaxUniforms == 2

\* the stages a program of this model links
RegistryStages == {MESA_SHADER_VERTEX, MESA_SHADER_FRAGMENT}

\* one entry of shProg->UniformStorage: a visible uniform or buffer variable
\* with the stages build_stageref finds it in, or a hidden one, which can be
\* a subroutine uniform active in some stages
UniformStorages ==
  {[hidden |-> FALSE, is_subroutine |-> FALSE, active |-> {}, stageref |-> r,
    is_shader_storage |-> b] : r \in SUBSET RegistryStages, b \in BOOLEAN}
  \cup {[hidden |-> TRUE, is_subroutine |-> u, active |-> a, stageref |-> {},
         is_shader_storage |-> FALSE] : u \in BOOLEAN, a \in SUBSET RegistryStages}

\* _mesa_shader_stage_to_subroutine_uniform and _mesa_shader_stage_to_subroutine
shader_stage_to_subroutine_uniform(j) ==
  <<"GL_VERTEX_SUBROUTINE_UNIFORM", "GL_TESS_CONTROL_SUBROUTINE_UNIFORM",
    "GL_TESS_EVALUATION_SUBROUTINE_UNIFORM", "GL_GEOMETRY_SUBROUTINE_UNIFORM",
    "GL_FRAGMENT_SUBROUTINE_UNIFORM", "GL_COMPUTE_SUBROUTINE_UNIFORM">>[j + 1]

shader_stage_to_subroutine(j) ==
  <<"GL_VERTEX_SUBROUTINE", "GL_TESS_CONTROL_SUBROUTINE",
    "GL_TESS_EVALUATION_SUBROUTINE", "GL_GEOMETRY_SUBROUTINE",
    "GL_FRAGMENT_SUBROUTINE", "GL_COMPUTE_SUBROUTINE">>[j + 1]

\* one call of add_program_resource
Addition(type, data, stages) == [Type |-> type, Data |-> data, stages |-> stages]

\* a pointer to element k of array `name' of the program (owner -1) or of the
\* linked shader of stage `owner'
PointerTo(name, owner, k) == <<name, owner, k>>

\* the elements of array `name', each added with no stage
ArrayAdditions(type, name, owner, n) ==
  [k \in 1 .. n |-> Addition(type, PointerTo(name, owner, k), {})]

\* lines 4618-4655: a gl_shader_variable is created for each variable of the
\* interface of the stage
add_interface_variables(n, Stage, programInterface) ==
  [k \in 1 .. n |-> Addition(programInterface, PointerTo(programInterface, Stage, k), {Stage})]

\* lines 4998-5027
RECURSIVE UniformAdditions(_, _)
UniformAdditions(storage, i) ==
  IF i > Len(storage) THEN <<>>
  ELSE (IF storage[i].hidden THEN <<>>
        ELSE <<Addition(IF storage[i].is_shader_storage
                          THEN "GL_BUFFER_VARIABLE" ELSE "GL_UNIFORM",
                        PointerTo("UniformStorage", -1, i), storage[i].stageref)>>)
       \o UniformAdditions(storage, i + 1)

\* lines 5057-5071
RECURSIVE SubroutineUniformAdditions(_, _, _)
SubroutineUniformAdditions(storage, i, j) ==
  IF i > Len(storage) THEN <<>>
  ELSE IF j >= MESA_SHADER_STAGES \/ ~storage[i].hidden
    THEN SubroutineUniformAdditions(storage, i + 1, MESA_SHADER_VERTEX)
  ELSE (IF j \in storage[i].active /\ storage[i].is_subroutine
          THEN <<Addition(shader_stage_to_subroutine_uniform(j),
                          PointerTo("UniformStorage", -1, i), {})>>
          ELSE <<>>)
       \o SubroutineUniformAdditions(storage, i, j + 1)

\* lines 5073-5085
RECURSIVE SubroutineAdditions(_, _)
SubroutineAdditions(prog, i) ==
  IF i >= MESA_SHADER_STAGES THEN <<>>
  ELSE (IF i \in prog.linked
          THEN ArrayAdditions(shader_stage_to_subroutine(i),
                              "SubroutineFunctions", i,
                              prog.NumSubroutineFunctions)
          ELSE <<>>)
       \o SubroutineAdditions(prog, i + 1)

\* lines 4945-5085: the calls of add_program_resource in the order in which
\* build_program_resource_list makes them while none fails
Additions(prog) ==
  LET input_stage == SetMin(prog.linked)
      output_stage == SetMax(prog.linked)
  IN add_interface_variables(prog.NumInputs, input_stage, "GL_PROGRAM_INPUT")
     \o add_interface_variables(prog.NumOutputs, output_stage, "GL_PROGRAM_OUTPUT")
     \o ArrayAdditions("GL_TRANSFORM_FEEDBACK_VARYING", "Varyings", -1, prog.NumVarying)
     \o UniformAdditions(prog.UniformStorage, 1)
     \o ArrayAdditions("GL_UNIFORM_BLOCK", "UniformBlocks", -1, prog.NumUniformBlocks)
     \o SubroutineUniformAdditions(prog.UniformStorage, 1, MESA_SHADER_VERTEX)
     \o SubroutineAdditions(prog, MESA_SHADER_VERTEX)

\* lines 4347-4379; reralloc fails at its call number fail_at, and the caller
\* returns at the first addition that fails
add_program_resource(st, a, fail_at) ==
  IF ~st.ok THEN st
  ELSE IF \E i \in 1 .. Len(st.ProgramResourceList) :
            st.ProgramResourceList[i].Data = a.Data
    THEN st
  ELSE IF st.rerallocs + 1 = fail_at
    THEN [ok |-> FALSE, ProgramResourceList |-> <<>>, rerallocs |-> st.rerallocs + 1,
          log |-> <<<<"error: ", "Out of memory during linking.">>>>]
  ELSE [st EXCEPT
          !.ProgramResourceList =
             Append(@, [Type |-> a.Type, Data |-> a.Data, StageReferences |-> a.stages]),
          !.rerallocs = @ + 1]

RECURSIVE AddAll(_, _, _, _)
AddAll(st, adds, k, fail_at) ==
  IF k > Len(adds) THEN st
  ELSE AddAll(add_program_resource(st, adds[k], fail_at), adds, k + 1, fail_at)

\* lines 4933-5086
build_program_resource_list_of(prog, fail_at) ==
  LET empty == [ok |-> TRUE, ProgramResourceList |-> <<>>, rerallocs |-> 0,
                log |-> <<>>]
  IN IF prog.linked = {} THEN empty
     ELSE AddAll(empty, Additions(prog), 1, fail_at)

\* a uniform is active in, and referenced from, linked stages only
RegistryPrograms(n) ==
  UNION {{[linked |-> l, NumInputs |-> i, NumOutputs |-> o, NumVarying |-> v,
           NumUniformBlocks |-> b, NumSubroutineFunctions |-> f, UniformStorage |-> u]
            : i \in 0 .. 1, o \in 0 .. 1, v \in 0 .. 1, b \in 0 .. 1, f \in 0 .. 1,
              u \in [1 .. n -> {x \in UniformStorages :
                                  x.active \cup x.stageref \subseteq l}]}
         : l \in SUBSET RegistryStages}

RegistryInit ==
  /\ \E n \in 0 .. MaxUniforms : \E prog \in RegistryPrograms(n), fail_at \in 0 .. 2 :
       callSt = [prog |-> prog, fail_at |-> fail_at, out |-> "none"]
  /\ pc = "registry"
  /\ DriverAtRest

build_program_resource_list ==
  Return("registry", "registry_built",
         build_program_resource_list_of(callSt.prog, callSt.fail_at))

RegistryNext == build_program_resource_list

SpecRegistry == RegistryInit /\ [][RegistryNext]_vars

\* C25: after build_program_resource_list no two records share a backing
\* pointer, and a resource added more than once has one record whose stage
\* mask is the union of the masks of its additions and which keeps every
\* kind the resource was added under.
C25_AddedOnceNothingLost ==
  (pc = "registry_built" /\ callSt.out.ok /\ callSt.prog.linked # {}) =>
    LET list == callSt.out.ProgramResourceList
        adds == Additions(callSt.prog)
    IN /\ \A i, j \in 1 .. Len(list) : list[i].Data = list[j].Data => i = j
       /\ \A k \in 1 .. Len(adds) :
            \E i \in 1 .. Len(list) :
               /\ list[i].Data = adds[k].Data
               /\ list[i].StageReferences
                    = UNION {adds[x].stages : x \in {y \in 1 .. Len(adds) :
                                                       adds[y].Data = adds[k].Data}}
               /\ \E j \in 1 .. Len(list) :
                    list[j].Data = adds[k].Data /\ list[j].Type = adds[k].Type

\* the part of C25 that holds: no two records share a backing pointer, and
\* every resource that was added has a record
C25_OneRecordPerPointer ==
  (pc = "registry_built" /\ callSt.out.ok /\ callSt.prog.linked # {}) =>
    LET list == callSt.out.ProgramResourceList
        adds == Additions(callSt.prog)
    IN /\ \A i, j \in 1 .. Len(list) : list[i].Data = list[j].Data => i = j
       /\ \A k \in 1 .. Len(adds) :
            \E i \in 1 .. Len(list) : list[i].Data = adds[k].Data

(***************************************************************************)
(* The writes to ir_variable::data.location and data.explicit_location     *)
(* during one link: cross_validate_uniforms (lines 1839-1867, 2008-2012),  *)
(* resize_tes_inputs (lines 3262-3311), link_invalidate_variable_locations *)
(* (lines 1408-1437) and the allocation of vertex input locations (lines   *)
(* 3360-3774), in the order link_shaders calls them (lines 5457-5606).     *)
(***************************************************************************)
\* an enumerator of gl_system_value; only its being a location that no other
\* variable of the model has is used
SYSTEM_VALUE_VERTICES_IN == 25

\* an ir_variable of a linked shader
LocVar(name, Stage, mode, explicit, location) ==
  [name |-> name, Stage |-> Stage, mode |-> mode, explicit_location |-> explicit,
   location |-> location, location_frac |-> 0, is_unmatched_generic_inout |-> 0]

\* the declarations of one variable: with layout(location = ...) or without
LocDecls(name, Stage, mode, bias) ==
  {LocVar(name, Stage, mode, FALSE, -1)}
  \cup {LocVar(name, Stage, mode, TRUE, bias + l) : l \in 0 .. MaxLimit - 1}

\* the variables of the linked shaders: a vertex input, a uniform of the
\* vertex stage and, where a tessellation evaluation stage is linked, its
\* declaration of the same uniform and the built-in gl_PatchVerticesIn
LocPrograms ==
  {[ir |-> <<a, u>>, tes |-> FALSE, tcs |-> FALSE, LowerTESPatchVerticesIn |-> w,
    MaxAttribs |-> m]
     : a \in LocDecls("a", MESA_SHADER_VERTEX, "ir_var_shader_in", VERT_ATTRIB_GENERIC0),
       u \in LocDecls("u", MESA_SHADER_VERTEX, "ir_var_uniform", 0),
       w \in BOOLEAN, m \in 1 .. MaxLimit}
  \cup
  {[ir |-> <<a, u, t,
             LocVar("gl_PatchVerticesIn", MESA_SHADER_TESS_EVAL, "ir_var_system_value",
                    TRUE, SYSTEM_VALUE_VERTICES_IN)>>,
    tes |-> TRUE, tcs |-> c, LowerTESPatchVerticesIn |-> w, MaxAttribs |-> m]
     : a \in LocDecls("a", MESA_SHADER_VERTEX, "ir_var_shader_in", VERT_ATTRIB_GENERIC0),
       u \in LocDecls("u", MESA_SHADER_VERTEX, "ir_var_uniform", 0),
       t \in LocDecls("u", MESA_SHADER_TESS_EVAL, "ir_var_uniform", 0),
       c \in BOOLEAN, w \in BOOLEAN, m \in 1 .. MaxLimit}

\* lines 1839-1867 for declaration k, whose name declaration e has in the
\* symbol table
CrossValidateLocation(st, e, k) ==
  LET existing == st.ir[e]
      var == st.ir[k]
  IN IF var.explicit_location
       THEN IF existing.explicit_location /\ var.location # existing.location
              THEN [st EXCEPT !.ok = FALSE,
                              !.log = Append(@, <<"error: ", "explicit locations have differing values">>)]
            ELSE IF var.location_frac # existing.location_frac
              THEN [st EXCEPT !.ok = FALSE,
                              !.log = Append(@, <<"error: ", "explicit components have differing values">>)]
            ELSE [st EXCEPT !.ir[e].location = var.location,
                            !.ir[e].explicit_location = TRUE]
     ELSE IF existing.explicit_location
       THEN [st EXCEPT !.ir[k].location = existing.location,
                       !.ir[k].explicit_location = TRUE]
     ELSE st

\* lines 2008-2012 and 1776-1800: the uniforms of the linked shaders in
\* stage order; the first declaration of a name enters the symbol table
RECURSIVE CrossValidateUniforms(_, _)
CrossValidateUniforms(st, k) ==
  IF k > Len(st.ir) \/ ~st.ok THEN st
  ELSE LET earlier == {e \in 1 .. k - 1 : /\ st.ir[e].mode = "ir_var_uniform"
                                          /\ st.ir[e].name = st.ir[k].name}
       IN CrossValidateUniforms(
            IF st.ir[k].mode # "ir_var_uniform" \/ earlier = {} THEN st
            ELSE CrossValidateLocation(st, SetMin(earlier), k),
            k + 1)

\* lines 3262-3311, as far as they write the variables' location fields
ResizeTesInputs(prog, ir) ==
  IF ~prog.tes \/ ~(prog.tcs \/ prog.LowerTESPatchVerticesIn) THEN ir
  ELSE [k \in 1 .. Len(ir) |->
          IF /\ ir[k].Stage = MESA_SHADER_TESS_EVAL
             /\ ir[k].mode = "ir_var_system_value"
             /\ ir[k].location = SYSTEM_VALUE_VERTICES_IN
            THEN [ir[k] EXCEPT !.location = 0,
                               !.explicit_location = FALSE,
                               !.mode = IF prog.tcs THEN "ir_var_auto"
                                        ELSE "ir_var_uniform"]
            ELSE ir[k]]

\* lines 1408-1437 with the location reset for every variable
invalidate_every_location(ir) ==
  [k \in 1 .. Len(ir) |->
     [ir[k] EXCEPT !.location = -1, !.location_frac = 0,
                   !.is_unmatched_generic_inout = 1]]

\* lines 1408-1437; VARYING_SLOT_VAR0 is above every location of the model
\* but those of generic vertex inputs, which are not varyings
link_invalidate_variable_locations_of(ir) ==
  [k \in 1 .. Len(ir) |->
     [ir[k] EXCEPT
        !.location = IF ~ir[k].explicit_location THEN -1 ELSE @,
        !.location_frac = IF ~ir[k].explicit_location THEN 0 ELSE @,
        !.is_unmatched_generic_inout = IF ir[k].explicit_location THEN 0 ELSE 1]]

\* lines 3409-3774 for single-slot vertex inputs: the explicit locations are
\* taken first, the other inputs get the first free slot below MaxAttribs
RECURSIVE AssignVertexInputs(_, _, _, _)
AssignVertexInputs(prog, ir, used, k) ==
  IF k > Len(ir) THEN [ok |-> TRUE, ir |-> ir]
  ELSE IF \/ ir[k].Stage # MESA_SHADER_VERTEX \/ ir[k].mode # "ir_var_shader_in"
          \/ ir[k].explicit_location \/ ir[k].location # -1
    THEN AssignVertexInputs(prog, ir, used, k + 1)
  ELSE LET location == find_available_slots(used, 1)
       IN IF location < 0 THEN [ok |-> FALSE, ir |-> ir]
          ELSE AssignVertexInputs(
                 prog,
                 [ir EXCEPT ![k].location = VERT_ATTRIB_GENERIC0 + location],
                 used \cup {location}, k + 1)

LocTaken(prog, ir) ==
  InitialUsedLocations(prog.MaxAttribs)
  \cup {ir[k].location - VERT_ATTRIB_GENERIC0 :
          k \in {j \in 1 .. Len(ir) :
                   /\ ir[j].Stage = MESA_SHADER_VERTEX
                   /\ ir[j].mode = "ir_var_shader_in"
                   /\ ir[j].explicit_location}}

LocInit ==
  /\ \E prog \in LocPrograms :
       callSt = [prog |-> prog, start |-> prog.ir, ir |-> prog.ir, ok |-> TRUE,
                 log |-> <<>>, out |-> "none"]
  /\ pc = "loc_validate"
  /\ DriverAtRest

LocStep(from, to, st) ==
  /\ pc = from
  /\ callSt' = st
  /\ pc' = IF st.ok THEN to ELSE "loc_done"
  /\ UNCHANGED <<driverData, allocSt, blockSt, globSt>>

\* lines 5457-5459
loc_cross_validate_uniforms ==
  LocStep("loc_validate", "loc_resize", CrossValidateUniforms(callSt, 1))

\* line 5481
loc_resize_tes_inputs ==
  LocStep("loc_resize", "loc_invalidate",
          [callSt EXCEPT !.ir = ResizeTesInputs(callSt.prog, callSt.ir)])

\* lines 5580-5585
loc_invalidate_variable_locations ==
  LocStep("loc_invalidate", "loc_assign",
          [callSt EXCEPT !.ir = link_invalidate_variable_locations_of(callSt.ir)])

\* lines 5598-5606
loc_assign_attribute_locations ==
  LET r == AssignVertexInputs(callSt.prog, callSt.ir,
                              LocTaken(callSt.prog, callSt.ir), 1)
  IN LocStep("loc_assign", "loc_done",
             [callSt EXCEPT !.ir = r.ir, !.ok = r.ok,
                            !.log = IF r.ok THEN @
                                    ELSE Append(@, <<"error: ", "insufficient contiguous locations available for vertex shader input">>)])

LocNext ==
  \/ loc_cross_validate_uniforms
  \/ loc_resize_tes_inputs
  \/ loc_invalidate_variable_locations
  \/ loc_assign_attribute_locations

SpecLocations == LocInit /\ [][LocNext]_vars

LocIndexes == 1 .. Len(callSt.ir)

\* a step clears no explicit-location flag
FlagKept(k) == callSt.ir[k].explicit_location => callSt'.ir[k].explicit_location

LocationWritten(k) == callSt'.ir[k].location # callSt.ir[k].location

\* what link_invalidate_variable_locations does to variable k
InvalidationFrame(k) ==
  IF callSt.ir[k].explicit_location
    THEN /\ callSt'.ir[k].location = callSt.ir[k].location
         /\ callSt'.ir[k].location_frac = callSt.ir[k].location_frac
         /\ callSt'.ir[k].explicit_location
    ELSE /\ callSt'.ir[k].location = -1
         /\ ~callSt'.ir[k].explicit_location

\* C26: no step of the link clears an explicit-location flag, only the
\* location allocation (the invalidation that starts it and the assignment)
\* writes a location, and link_invalidate_variable_locations leaves the
\* location and component of explicitly located variables alone and sets the
\* location of the others to -1.
C26_LocationFrame ==
  [][\A k \in LocIndexes :
        /\ FlagKept(k)
        /\ LocationWritten(k) => pc \in {"loc_invalidate", "loc_assign"}
        /\ pc = "loc_invalidate" => InvalidationFrame(k)]_vars

\* C26 as the code has it: a flag is cleared only by resize_tes_inputs, for
\* gl_PatchVerticesIn when the program has a tessellation control stage or
\* the device lowers the value, and its location becomes 0; a location is
\* also written by cross_validate_uniforms, which gives a declaration the
\* explicit location of another declaration of the same uniform and sets its
\* flag; every other write is the allocation's, and
\* link_invalidate_variable_locations leaves the location and component of
\* explicitly located variables alone and sets the location of the others
\* to -1.
C26_LocationFrameWithLowering ==
  [][\A k \in LocIndexes :
        /\ ~FlagKept(k) =>
             /\ pc = "loc_resize"
             /\ callSt.ir[k].name = "gl_PatchVerticesIn"
             /\ callSt.prog.tcs \/ callSt.prog.LowerTESPatchVerticesIn
             /\ callSt'.ir[k].location = 0
        /\ LocationWritten(k) =>
             \/ pc \in {"loc_invalidate", "loc_assign"}
             \/ pc = "loc_resize" /\ ~FlagKept(k)
             \/ /\ pc = "loc_validate"
                /\ ~callSt.ir[k].explicit_location /\ callSt'.ir[k].explicit_location
                /\ \E j \in LocIndexes :
                     /\ j # k /\ callSt.ir[j].name = callSt.ir[k].name
                     /\ callSt.ir[j].explicit_location
                     /\ callSt'.ir[k].location = callSt.ir[j].location
        /\ pc = "loc_invalidate" => InvalidationFrame(k)]_vars

\* link_invalidate_variable_locations has run over a variable with an explicit
\* location, which it kept, and over one without, whose location is -1; before
\* it cross_validate_uniforms wrote a location and resize_tes_inputs cleared
\* a flag
C26_Witness ==
  /\ pc = "loc_assign"
  /\ \E k \in LocIndexes :
       /\ callSt.start[k].explicit_location /\ callSt.ir[k].explicit_location
       /\ callSt.ir[k].location = callSt.start[k].location
  /\ \E k \in LocIndexes :
       ~callSt.ir[k].explicit_location /\ callSt.ir[k].location = -1
  /\ \E k \in LocIndexes :
       callSt.start[k].explicit_location /\ ~callSt.ir[k].explicit_location
  /\ \E k \in LocIndexes :
       /\ ~callSt.start[k].explicit_location /\ callSt.ir[k].explicit_location
       /\ callSt.ir[k].location # callSt.start[k].location

(***************************************************************************)
(* The verdict of cross_validate_globals, lines 1768-2001, under a         *)
(* reordering of the declarations.                                         *)
(***************************************************************************)
\* the verdict of a call of cross_validate_globals: no linker_error was logged
GlobalsVerdict(result) ==
  \A k \in 1 .. Len(result.log) : result.log[k][1] # "error: "

\* C27: the verdict of cross_validate_globals on the declarations of one
\* global, here an array that no unit takes from an unsized member of a
\* shader storage block, is the same for every order of the units that
\* declare it.
C27_VerdictOrderFree ==
  (/\ pc = "arrays_validated"
   /\ \A i \in ArrayShaders : ~callSt.decls[i].from_ssbo_unsized_array) =>
    \A other \in Reorderings(callSt.decls) :
       GlobalsVerdict(cross_validate_globals_of(other)) = GlobalsVerdict(callSt.out)

(***************************************************************************)
(* The temporary arrays of assign_attribute_or_color_locations: to_assign  *)
(* (line 3424) and assigned (line 3429), filled at lines 3679-3695.        *)
(***************************************************************************)
MaxLocated == 17
MaxImplicit == 3

\* the number of elements of ir_variable *assigned[16] and of to_assign[32]
AssignedCapacity == 16
ToAssignCapacity == 32

\* the device limits of the model; line 3425 asserts max_index <= 32
CapacityLimits == (1 .. MaxLimit) \cup {ToAssignCapacity}

\* a variable that reaches line 3679 with a location: declared with
\* layout(location) or bound through the API
IsLocated(v) == v.explicit_location \/ v.binding # -1

\* n variables that carry the location of `located', then m without one
CapacityVars(located, implicit, n, m) ==
  [k \in 1 .. n + m |-> IF k <= n THEN located ELSE implicit]

\* lines 3434-3695: the counters when the first loop is left, and whether
\* line 3679 wrote past the end of `assigned'
FirstLoopCounters(in) ==
  LET st1 == FirstLoop(in, AllocStart(in), 1)
  IN [assigned_attr |-> Len(st1.assigned),
      num_attr |-> Len(st1.to_assign),
      past_the_end |-> Len(st1.assigned) > AssignedCapacity]

\* lines 3359-3774; after a write past the end of `assigned' the outcome of
\* the call is open
CapacityResults(in) ==
  LET c == FirstLoopCounters(in)
  IN UNION {{[ok |-> b, assigned_attr |-> c.assigned_attr, num_attr |-> c.num_attr,
              past_the_end |-> c.past_the_end, log |-> r.log]
               : b \in IF c.past_the_end THEN BOOLEAN ELSE {r.ok}}
            : r \in AllocResults(in)}

CapacityInit ==
  /\ \E n \in 0 .. MaxLocated, m \in 0 .. MaxImplicit :
       \/ \E lv \in {v \in VertexVars : IsLocated(v)}, t \in VertexTypes,
             a \in CapacityLimits, e \in Profiles :
            callSt = [in |-> VertexInput(a, e, FALSE,
                                         CapacityVars(lv, ImplicitVar(t), n, m)),
                      out |-> "none"]
       \/ \E lv \in {v \in FragmentVars : IsLocated(v)}, t \in FragmentTypes,
             d \in CapacityLimits, e \in BOOLEAN :
            callSt = [in |-> FragmentInput(d, 1, e,
                                           CapacityVars(lv, ImplicitVar(t), n, m)),
                      out |-> "none"]
  /\ pc = "capacity"
  /\ DriverAtRest

\* one call of the allocator on the stage described by callSt.in
assign_locations_counted ==
  /\ pc = "capacity"
  /\ \E r \in CapacityResults(callSt.in) :
       callSt' = [callSt EXCEPT !.out = r]
  /\ pc' = "capacity_counted"
  /\ UNCHANGED <<driverData, allocSt, blockSt, globSt>>

CapacityNext == assign_locations_counted

SpecCapacity == CapacityInit /\ [][CapacityNext]_vars

\* C28: in assign_attribute_or_color_locations the number of variables
\* recorded as located never exceeds the 16 elements of `assigned', and the
\* number queued for allocation never exceeds max_index and the 32 elements
\* of `to_assign'.
C28_ArraysWithinCapacity ==
  pc = "capacity_counted" =>
    /\ callSt.out.assigned_attr <= AssignedCapacity
    /\ callSt.out.num_attr <= max_index(callSt.in)
    /\ callSt.out.num_attr <= ToAssignCapacity

\* the part of C28 that holds: the queue stays within max_index and to_assign
C28_QueueWithinCapacity ==
  pc = "capacity_counted" =>
    /\ callSt.out.num_attr <= max_index(callSt.in)
    /\ callSt.out.num_attr <= ToAssignCapacity

(***************************************************************************)
(* check_explicit_uniform_locations, lines 4196-4270,                      *)
(* reserve_explicit_locations, lines 4073-4141, and                        *)
(* reserve_subroutine_explicit_locations, lines 4143-4195.                 *)
(***************************************************************************)
MaxRemapLoc == 2

UniformNames == {"u", "v"}

\* var->type->uniform_locations(): an array without a size has none
UniformSlots == {0, 1, 2}

\* the uniforms of one name as a linked shader declares them: without
\* layout(location), with it, or a subroutine uniform with it
RemapUniforms(name) ==
  {[name |-> name, explicit_location |-> FALSE, location |-> -1, slots |-> 1,
    is_subroutine |-> FALSE]}
  \cup {[name |-> name, explicit_location |-> TRUE, location |-> l, slots |-> n,
         is_subroutine |-> FALSE] : l \in 0 .. MaxRemapLoc, n \in UniformSlots}
  \cup {[name |-> name, explicit_location |-> TRUE, location |-> l, slots |-> 1,
         is_subroutine |-> TRUE] : l \in 0 .. MaxRemapLoc}

\* the uniforms of one linked shader, in the order of its instructions
RemapShaders ==
  {<<>>}
  \cup UNION {{<<a>> : a \in RemapUniforms(n)} : n \in UniformNames}
  \cup UNION {{<<a, b>> : a \in RemapUniforms(n[1]), b \in RemapUniforms(n[2])}
                : n \in {<<"u", "v">>, <<"v", "u">>}}

\* what cross_validate_uniforms (lines 5457-5459) has accepted, and written,
\* before the call: the declarations of one name in two stages are of one
\* kind; an explicit location of one is the explicit location of the other
\* (lines 1839-1867); and they have the same number of slots, but that an
\* array without a size may follow a sized one (lines 1726-1747)
CrossValidated(first_decl, second) ==
  first_decl.name = second.name =>
    /\ first_decl.is_subroutine = second.is_subroutine
    /\ first_decl.explicit_location = second.explicit_location
    /\ first_decl.location = second.location
    /\ second.slots \in {first_decl.slots, 0}

RemapStart ==
  [UniformRemapTable |-> <<>>,
   SubroutineUniformRemapTable |-> [i \in 0 .. MESA_SHADER_STAGES - 1 |-> <<>>],
   uniform_map |-> [n \in UniformNames |-> -1],
   entries_total |-> 0, EmptyUniformLocations |-> <<>>,
   LinkStatus |-> TRUE, log |-> <<>>]

RemapError(st, msg, name) ==
  [st EXCEPT !.LinkStatus = FALSE, !.log = Append(@, <<"error: ", msg, name>>)]

\* lines 4081-4097 and 4151-4167: the table grown to `size' entries, the new
\* ones NULL; slot l of a table is element l + 1 of the sequence
GrowTable(table, size) ==
  IF size > Len(table)
    THEN [i \in 1 .. size |-> IF i <= Len(table) THEN table[i] ELSE "NULL"]
    ELSE table

\* lines 4099-4135 from slot i of the variable on; the result is the state and
\* the value to return, -1 after an error
RECURSIVE ReserveSlots(_, _, _, _)
ReserveSlots(st, var, i, return_value) ==
  IF i >= var.slots THEN [st |-> st, ret |-> return_value]
  ELSE LET loc == var.location + i
       IN IF st.UniformRemapTable[loc + 1] = "INACTIVE_UNIFORM_EXPLICIT_LOCATION"
            THEN IF st.uniform_map[var.name] # -1
                    /\ st.uniform_map[var.name] = loc - i
                   THEN ReserveSlots(st, var, i + 1, 0)
                   ELSE [st |-> RemapError(st, "location qualifier for uniform overlaps previously used location", var.name),
                         ret |-> -1]
            ELSE ReserveSlots(
                   [st EXCEPT !.UniformRemapTable[loc + 1] =
                                 "INACTIVE_UNIFORM_EXPLICIT_LOCATION"],
                   var, i + 1, return_value)

\* lines 4073-4141 with every slot that is already taken an error
reserve_explicit_locations_strict(st, var, oom) ==
  LET size == var.location + var.slots
      grown == [st EXCEPT !.UniformRemapTable = GrowTable(@, size)]
      taken == \E i \in 0 .. var.slots - 1 :
                 grown.UniformRemapTable[var.location + i + 1]
                   = "INACTIVE_UNIFORM_EXPLICIT_LOCATION"
      r == ReserveSlots(grown, var, 0, var.slots)
  IN IF size > Len(st.UniformRemapTable) /\ oom
       THEN [st |-> RemapError(st, "Out of memory during linking.", var.name), ret |-> -1]
     ELSE IF taken
       THEN [st |-> RemapError(grown, "location qualifier for uniform overlaps previously used location", var.name),
             ret |-> -1]
     ELSE [st |-> [r.st EXCEPT !.uniform_map[var.name] = var.location],
           ret |-> r.ret]

\* lines 4073-4141; max_loc + 1 is location + slots in unsigned arithmetic
\* also where slots is 0; `oom' is whether reralloc fails
reserve_explicit_locations(st, var, oom) ==
  LET size == var.location + var.slots
      grown == [st EXCEPT !.UniformRemapTable = GrowTable(@, size)]
      r == ReserveSlots(grown, var, 0, var.slots)
  IN IF size > Len(st.UniformRemapTable) /\ oom
       THEN [st |-> RemapError(st, "Out of memory during linking.", var.name), ret |-> -1]
     ELSE IF r.ret = -1 THEN r
     ELSE [st |-> [r.st EXCEPT !.uniform_map[var.name] = var.location],
           ret |-> r.ret]

\* lines 4143-4195 for a subroutine uniform of the shader of stage i
reserve_subroutine_explicit_locations(st, i, var, oom) ==
  LET size == var.location + var.slots
      table == GrowTable(st.SubroutineUniformRemapTable[i], size)
      taken == \E k \in 0 .. var.slots - 1 :
                 table[var.location + k + 1] = "INACTIVE_UNIFORM_EXPLICIT_LOCATION"
  IN IF size > Len(st.SubroutineUniformRemapTable[i]) /\ oom
       THEN [st |-> RemapError(st, "Out of memory during linking.", var.name), ret |-> -1]
     ELSE IF taken
       THEN [st |-> RemapError([st EXCEPT !.SubroutineUniformRemapTable[i] = table],
                               "location qualifier for uniform overlaps previously used location",
                               var.name),
             ret |-> -1]
     ELSE [st |-> [st EXCEPT !.SubroutineUniformRemapTable[i] =
                      [k \in 1 .. Len(table) |->
                         IF k - 1 \in var.location .. var.location + var.slots - 1
                           THEN "INACTIVE_UNIFORM_EXPLICIT_LOCATION" ELSE table[k]]],
           ret |-> 0]

\* lines 4219-4245: the uniforms of the linked shaders in stage order
RECURSIVE ReserveAll(_, _, _, _, _)
ReserveAll(st, shaders, i, k, oom) ==
  IF i >= MESA_SHADER_STAGES \/ ~st.LinkStatus THEN st
  ELSE IF k > Len(shaders[i]) THEN ReserveAll(st, shaders, i + 1, 1, oom)
  ELSE LET var == shaders[i][k]
           r == IF var.is_subroutine
                  THEN reserve_subroutine_explicit_locations(st, i, var, oom)
                  ELSE reserve_explicit_locations(st, var, oom)
       IN ReserveAll(
            IF ~var.explicit_location THEN st
            ELSE IF r.ret = -1 THEN r.st
            ELSE [r.st EXCEPT !.entries_total = @ + r.ret],
            shaders, i, k + 1, oom)

\* lines 4247-4265: a block is opened at a NULL slot that does not continue
\* the current block, and the current block grows by each NULL slot
RECURSIVE EmptyBlocks(_, _, _)
EmptyBlocks(table, i, blocks) ==
  IF i >= Len(table) THEN blocks
  ELSE IF table[i + 1] # "NULL" THEN EmptyBlocks(table, i + 1, blocks)
  ELSE LET n == Len(blocks)
           opened == IF n = 0 \/ blocks[n].start + blocks[n].slots # i
                       THEN Append(blocks, [start |-> i, slots |-> 0])
                       ELSE blocks
       IN EmptyBlocks(table, i + 1,
                      [opened EXCEPT ![Len(opened)].slots = @ + 1])

\* lines 4196-4270; the value returned is entries_total, 0 after an error
check_explicit_uniform_locations_of(in) ==
  LET st == ReserveAll(RemapStart, in.shaders, 0, 1, in.oom)
  IN IF ~in.ARB_explicit_uniform_location THEN RemapStart
     ELSE IF ~st.LinkStatus THEN [st EXCEPT !.entries_total = 0]
     ELSE [st EXCEPT !.EmptyUniformLocations = EmptyBlocks(st.UniformRemapTable, 0, <<>>)]

RemapInit ==
  /\ \E vs \in RemapShaders, fs \in RemapShaders, e \in BOOLEAN, o \in BOOLEAN :
       /\ \A a \in 1 .. Len(vs), b \in 1 .. Len(fs) : CrossValidated(vs[a], fs[b])
       /\ callSt = [in |-> [shaders |-> [i \in 0 .. MESA_SHADER_STAGES - 1 |->
                                           IF i = MESA_SHADER_VERTEX THEN vs
                                           ELSE IF i = MESA_SHADER_FRAGMENT THEN fs
                                           ELSE <<>>],
                            ARB_explicit_uniform_location |-> e, oom |-> o],
                    out |-> "none"]
  /\ pc = "remap"
  /\ DriverAtRest

check_explicit_uniform_locations_call ==
  Return("remap", "remap_checked", check_explicit_uniform_locations_of(callSt.in))

RemapNext == check_explicit_uniform_locations_call

SpecRemap == RemapInit /\ [][RemapNext]_vars

\* the default-block uniforms with an explicit location, as stage and index
ExplicitUniforms ==
  {d \in (0 .. MESA_SHADER_STAGES - 1) \X (1 .. 2) :
     /\ d[2] <= Len(callSt.in.shaders[d[1]])
     /\ callSt.in.shaders[d[1]][d[2]].explicit_location
     /\ ~callSt.in.shaders[d[1]][d[2]].is_subroutine}

UniformAt(d) == callSt.in.shaders[d[1]][d[2]]

\* the slots of the remap table uniform d asks for
SlotsOf(d) == UniformAt(d).location .. UniformAt(d).location + UniformAt(d).slots - 1

ReservedSlots == UNION {SlotsOf(d) : d \in ExplicitUniforms}

RemapSucceeded ==
  /\ pc = "remap_checked"
  /\ callSt.in.ARB_explicit_uniform_location
  /\ callSt.out.LinkStatus

\* two default-block uniforms of different names ask for a common slot
NamesOverlap ==
  \E d, e \in ExplicitUniforms :
     UniformAt(d).name # UniformAt(e).name /\ SlotsOf(d) \cap SlotsOf(e) # {}

\* two subroutine uniforms of one stage have the same location
SubroutinesOverlap ==
  \E i \in 0 .. MESA_SHADER_STAGES - 1 :
     \E a, b \in 1 .. Len(callSt.in.shaders[i]) :
        /\ a # b
        /\ callSt.in.shaders[i][a].is_subroutine /\ callSt.in.shaders[i][b].is_subroutine
        /\ callSt.in.shaders[i][a].location = callSt.in.shaders[i][b].location

MaxBatches == 2
MaxResources == 2
MaxContexts == 2
MaxSeqno == 3

BatchSlots == 0 .. MaxBatches - 1
Resources == 1 .. MaxResources
Contexts == 1 .. MaxContexts

\* batch->key == NULL
NoKey == [present |-> FALSE, width |-> 0, ctx_seqno |-> 0, surfs |-> {}]

\* cache->batches[idx] == NULL
NoBatch == [live |-> FALSE, ctx |-> 0, seqno |-> -1, key |-> NoKey]

\* fd_batch_from_fb, lines 490-509: the key of a framebuffer state; the
\* textures of its surfaces are `surfs'
FbKey(ctx, width, surfs) ==
  [present |-> TRUE, width |-> width, ctx_seqno |-> ctx, surfs |-> surfs]

\* fd_bc_init, lines 129-133, on a screen whose resources are alive
BcStart ==
  [batches |-> [i \in BatchSlots |-> NoBatch],
   batch_mask |-> {},
   cnt |-> 0,
   rsc |-> [r \in Resources |-> [alive |-> TRUE, bc_batch_mask |-> {}]],
   use_after_free |-> FALSE]

\* cache->ht: the keys that have an entry, with the slot of their batch
ht(c) ==
  {[key |-> c.batches[i].key, idx |-> i] :
     i \in {j \in BatchSlots : c.batches[j].live /\ c.batches[j].key.present}}

\* lines 282-305 for the batch of slot idx; clearing the bit in the track of
\* a resource that was destroyed writes to freed memory
bc_invalidate_batch(c, idx, remove) ==
  LET batch == c.batches[idx]
      key == batch.key
      c1 == IF remove
              THEN [c EXCEPT !.batches[idx] = NoBatch, !.batch_mask = @ \ {idx}]
              ELSE c
  IN IF ~batch.live THEN c
     ELSE IF ~key.present THEN c1
     ELSE [c1 EXCEPT
             !.rsc = [r \in Resources |->
                        IF r \in key.surfs
                          THEN [@[r] EXCEPT !.bc_batch_mask = @ \ {idx}]
                          ELSE @[r]],
             !.use_after_free = @ \/ \E r \in key.surfs : ~c.rsc[r].alive,
             !.batches[idx] = IF remove THEN NoBatch
                              ELSE [batch EXCEPT !.key = NoKey]]

\* foreach_batch(batch, cache, mask) fd_bc_invalidate_batch(batch, remove)
RECURSIVE InvalidateEach(_, _, _, _)
InvalidateEach(c, mask, ctx, remove) ==
  IF mask = {} THEN c
  ELSE LET i == SetMin(mask)
       IN InvalidateEach(
            IF ctx = 0 \/ c.batches[i].ctx = ctx
              THEN bc_invalidate_batch(c, i, remove) ELSE c,
            mask \ {i}, ctx, remove)

\* lines 338-382: while no slot is free the batch with the lowest seqno is
\* flushed, which takes it out of the cache
RECURSIVE FlushUntilFree(_)
FlushUntilFree(c) ==
  IF BatchSlots \ c.batch_mask # {} THEN c
  ELSE LET flush_batch == CHOOSE i \in BatchSlots :
                             \A j \in BatchSlots :
                                c.batches[i].seqno <= c.batches[j].seqno
       IN FlushUntilFree(bc_invalidate_batch(c, flush_batch, TRUE))

\* lines 329-400; `created' is whether fd_batch_create returns a batch
alloc_batch_locked(c, ctx, created) ==
  LET c1 == FlushUntilFree(c)
      idx == SetMin(BatchSlots \ c1.batch_mask)
  IN IF ~created THEN [c |-> c1, idx |-> -1]
     ELSE [c |-> [c1 EXCEPT
                    !.cnt = @ + 1,
                    !.batch_mask = @ \cup {idx},
                    !.batches[idx] = [live |-> TRUE, ctx |-> ctx, seqno |-> c1.cnt,
                                      key |-> NoKey]],
           idx |-> idx]

\* lines 426-475
batch_from_key(c, key, ctx, created) ==
  LET a == alloc_batch_locked(c, ctx, created)
  IN IF \E e \in ht(c) : e.key = key THEN c
     ELSE IF a.idx = -1 THEN a.c
     ELSE [a.c EXCEPT
             !.batches[a.idx].key = key,
             !.rsc = [r \in Resources |->
                        IF r \in key.surfs
                          THEN [@[r] EXCEPT !.bc_batch_mask = {a.idx}]
                          ELSE @[r]]]

BcInit ==
  /\ callSt = BcStart
  /\ pc = "batch_cache"
  /\ DriverAtRest

BcStep(c) ==
  /\ pc = "batch_cache"
  /\ callSt' = c
  /\ UNCHANGED <<pc, driverData, allocSt, blockSt, globSt>>

\* lines 487-513: the framebuffer state holds references to its surfaces,
\* so their resources are alive
fd_batch_from_fb ==
  \E ctx \in Contexts, width \in 1 .. 2, surfs \in SUBSET Resources,
     created \in BOOLEAN :
     /\ callSt.cnt < MaxSeqno
     /\ \A r \in surfs : callSt.rsc[r].alive
     /\ BcStep(batch_from_key(callSt, FbKey(ctx, width, surfs), ctx, created))

\* lines 282-305, called with remove when a batch of the cache is flushed
fd_bc_invalidate_batch ==
  \E idx \in callSt.batch_mask :
     BcStep(bc_invalidate_batch(callSt, idx, TRUE))

\* lines 244-257
fd_bc_invalidate_context ==
  \E ctx \in Contexts :
     BcStep(InvalidateEach(callSt, callSt.batch_mask, ctx, TRUE))

\* lines 307-327; with destroy the resource is freed after the call
fd_bc_invalidate_resource ==
  \E r \in Resources, destroy \in BOOLEAN :
     /\ callSt.rsc[r].alive
     /\ LET c == InvalidateEach(callSt, callSt.rsc[r].bc_batch_mask, 0, FALSE)
        IN BcStep([c EXCEPT !.rsc[r] = [alive |-> ~destroy, bc_batch_mask |-> {}]])

BcNext ==
  \/ fd_batch_from_fb
  \/ fd_bc_invalidate_batch
  \/ fd_bc_invalidate_context
  \/ fd_bc_invalidate_resource

SpecBatchCache == BcInit /\ [][BcNext]_vars

\* C30: every batch of the cache whose key references a resource has the bit
\* of its slot set in the bc_batch_mask of that resource, and no key of the
\* hashtable references a resource that was destroyed.
C30_KeyBitsSet ==
  pc = "batch_cache" =>
    \A e \in ht(callSt) : \A r \in e.key.surfs :
       /\ e.idx \in callSt.rsc[r].bc_batch_mask
       /\ callSt.rsc[r].alive

====
